---------------------------- MODULE Spec2Model ----------------------------
(***************************************************************************)
(* A model of the continuous-authorization core of RakshaNetra:            *)
(*   backend/modules/audit_logger.py   (TamperProofAuditLog)               *)
(*   backend/modules/zero_trust.py     (ZeroTrustFramework)                *)
(*   backend/middleware/zero_trust_middleware.py (ZeroTrustMiddleware)     *)
(*                                                                         *)
(* Values.  Every column of the audit store is TEXT, so a stored value is  *)
(* a string or SQL NULL; Python's None and SQL NULL are the atom NULL.     *)
(* SHA-256 and HMAC-SHA256 are modelled as collision-free symbolic         *)
(* digests: the digest of a byte string is the tagged sequence of the      *)
(* pieces it was serialised from, so two digests are equal exactly when    *)
(* their inputs are.                                                       *)
(***************************************************************************)
EXTENDS Integers, Sequences, FiniteSets, TLC

VARIABLES
    now,             \* datetime.utcnow(), in whole hours since an epoch midnight
    audit_log,       \* table audit_log of audit.db, rows in id order
    failed_logins,   \* table failed_logins of audit.db, rows in id order
    jsonl,           \* audit.jsonl: the event_id of each mirrored line
    last_log_hash,   \* logger instance -> its self.last_log_hash
    workers,         \* worker thread -> its position inside log_event or verify_access
    db_lock,         \* the worker holding the database's write lock, or NULL
    devices,         \* table devices of zt.db: device_id -> row
    sessions,        \* table sessions of zt.db: session_id -> row
    access_requests, \* table access_requests of zt.db, rows in id order
    behavior_baseline, \* table behavior_baseline of zt.db: user_id -> row
    anomalies,       \* table anomalies of zt.db, rows in id order
    mw_enabled,      \* ZeroTrustMiddleware.enabled
    tampered,        \* the out-of-band edit made to audit.db, if any
    ret              \* what the last completed call returned or raised

vars == <<now, audit_log, failed_logins, jsonl, last_log_hash, workers, db_lock,
          devices, sessions, access_requests, behavior_baseline, anomalies,
          mw_enabled, tampered, ret>>

auditVars == <<audit_log, failed_logins, jsonl, last_log_hash>>
concVars == <<workers, db_lock>>
ztVars == <<devices, sessions, access_requests, behavior_baseline, anomalies>>

NULL == "<NULL>"

(***************************************************************************)
(* Bounds of the model.                                                    *)
(***************************************************************************)
MaxFieldLog == 1   \* rows appended when every input combination is drawn
MaxTime == 1       \* hours the clock advances after the start
MaxFailedLogins == 1
MaxWorkerCalls == 2 \* rows appended by the interleaved workers
MaxDeviceSessions == 2 \* registrations of one device
MaxSessions == 2       \* rows of the sessions table
MaxAccessRequests == 1 \* rows of the access_requests table
MaxDecisions == 2      \* access decisions taken on one session

(***************************************************************************)
(* Serialisation and digests.                                              *)
(***************************************************************************)
\* hashlib.sha256(bytes).hexdigest()
Sha256(pieces) == <<"sha256">> \o pieces

\* hmac.new(key, data, hashlib.sha256).hexdigest()
HmacSha256(key, pieces) == <<"hmac-sha256", key>> \o pieces

\* json.dumps of a str or None
JsonValue(v) == IF v = NULL THEN "null" ELSE "\"" \o v \o "\""

\* json.dumps of a dict of str -> (str or None), given as a sequence of
\* <<key, value>> pairs in insertion order
RECURSIVE JsonItems(_)
JsonItems(d) ==
    IF d = <<>> THEN ""
    ELSE JsonValue(d[1][1]) \o ": " \o JsonValue(d[1][2])
         \o (IF Len(d) > 1 THEN ", " ELSE "") \o JsonItems(Tail(d))

JsonDumpsDict(d) == "{" \o JsonItems(d) \o "}"

\* An Optional[Dict]: None, or a dict.  Python's truth value of it.
NoDict == [present |-> FALSE, items |-> <<>>]
Dict(items) == [present |-> TRUE, items |-> items]
Truthy(m) == m.present /\ m.items # <<>>

\* The keys json.dumps(log_entry, sort_keys=True) can meet, in sorted order.
SortedKeys ==
    <<"action", "actor", "actor_ip", "created_at", "details", "event_id",
      "event_type", "metadata", "resource_id", "resource_type", "status",
      "timestamp">>

\* json.dumps(log_entry, sort_keys=True): the keys of the dict in sorted
\* order, each with its serialised value.
RECURSIVE CanonicalFrom(_, _)
CanonicalFrom(d, i) ==
    IF i > Len(SortedKeys) THEN <<>>
    ELSE (IF SortedKeys[i] \in DOMAIN d
             THEN <<SortedKeys[i], JsonValue(d[SortedKeys[i]])>>
             ELSE <<>>)
         \o CanonicalFrom(d, i + 1)

CanonicalJson(d) == CanonicalFrom(d, 1)

\* datetime.isoformat()
IsoFormat(t) == "T" \o ToString(t)

(***************************************************************************)
(* TamperProofAuditLog                                                     *)
(***************************************************************************)
Genesis == Sha256(<<"RAKSHANETRA_GENESIS_BLOCK">>)

hmac_key == "AUDIT_SECRET_KEY_CHANGE_IN_PRODUCTION"

\* A logger that never loads the tail of an existing store.
GetLastLogHashFresh(rows) == Genesis

\* _get_last_log_hash: SELECT current_hash ... ORDER BY id DESC LIMIT 1
GetLastLogHash(rows) ==
    IF Len(rows) > 0 THEN rows[Len(rows)].current_hash ELSE Genesis

\* _generate_event_id: "AUD-" + utcnow + "-" + os.urandom(4).hex()
GenerateEventId(t, random_part) == "AUD-" \o ToString(t) \o "-" \o random_part

\* _calculate_log_hash
CalculateLogHash(log_entry) == Sha256(CanonicalJson(log_entry))

\* _sign_log_entry: HMAC over f"{log_hash}|{previous_hash}"
SignLogEntry(log_hash, previous_hash) ==
    HmacSha256(hmac_key, log_hash \o <<"|">> \o previous_hash)

\* log_event, lines 214-226: the dict that is hashed
BuildLogEntry(event_id, timestamp, in) ==
    [event_id |-> event_id,
     timestamp |-> timestamp,
     event_type |-> in.event_type,
     actor |-> in.actor,
     action |-> in.action,
     status |-> in.status,
     actor_ip |-> in.actor_ip,
     resource_type |-> in.resource_type,
     resource_id |-> in.resource_id,
     details |-> in.details,
     metadata |-> IF Truthy(in.metadata) THEN JsonDumpsDict(in.metadata.items)
                  ELSE NULL]

\* log_event, lines 229-236 and the tuple of the INSERT: the stored row
RowOf(log_entry, previous_hash, current_hash) ==
    [event_id |-> log_entry.event_id,
     timestamp |-> log_entry.timestamp,
     event_type |-> log_entry.event_type,
     actor |-> log_entry.actor,
     actor_ip |-> log_entry.actor_ip,
     resource_type |-> log_entry.resource_type,
     resource_id |-> log_entry.resource_id,
     action |-> log_entry.action,
     status |-> log_entry.status,
     details |-> log_entry.details,
     metadata |-> log_entry.metadata,
     previous_hash |-> previous_hash,
     current_hash |-> current_hash,
     signature |-> SignLogEntry(current_hash, previous_hash),
     created_at |-> log_entry.timestamp]

BuildRow(log_entry, previous_hash) ==
    RowOf(log_entry, previous_hash, CalculateLogHash(log_entry))

\* The points at which the storage layer can fail inside log_event.
Failures == {"none", "connect", "insert", "commit", "mirror"}

\* event_id TEXT UNIQUE: the INSERT raises IntegrityError on a duplicate.
InsertFails(rows, row, fail) ==
    \/ fail \in {"connect", "insert"}
    \/ \E i \in 1..Len(rows) : rows[i].event_id = row.event_id

\* The cache assigned before the INSERT is attempted.
CacheUpdatedEarly(inserted, fail) == TRUE

\* Whether self.last_log_hash is assigned (line 258): only after the
\* INSERT and the commit went through.
CacheUpdated(inserted, fail) == inserted /\ fail # "commit"

\* What a log_event call that built `row` leaves behind: the store, the
\* cache of instance l, the mirror, and whether it raises.
\* a log_event that writes with INSERT OR REPLACE into a one-row table
LogEventOutcomeReplacing(l, row, inserted, fail) ==
    [raised |-> ~(inserted /\ fail # "commit") \/ fail = "mirror",
     committed |-> inserted /\ fail # "commit",
     event_id |-> row.event_id,
     log |-> IF inserted /\ fail # "commit" THEN <<row>> ELSE audit_log,
     last |-> IF CacheUpdated(inserted, fail)
              THEN [last_log_hash EXCEPT ![l] = row.current_hash]
              ELSE last_log_hash,
     mirror |-> IF inserted /\ fail \notin {"commit", "mirror"}
                THEN Append(jsonl, row.event_id) ELSE jsonl]

LogEventOutcome(l, row, inserted, fail) ==
    [raised |-> ~(inserted /\ fail # "commit") \/ fail = "mirror",
     committed |-> inserted /\ fail # "commit",
     event_id |-> row.event_id,
     log |-> IF inserted /\ fail # "commit" THEN Append(audit_log, row)
             ELSE audit_log,
     last |-> IF CacheUpdated(inserted, fail)
              THEN [last_log_hash EXCEPT ![l] = row.current_hash]
              ELSE last_log_hash,
     mirror |-> IF inserted /\ fail \notin {"commit", "mirror"}
                THEN Append(jsonl, row.event_id) ELSE jsonl]

LogEventWithRow(l, row, fail) ==
    LogEventOutcome(l, row, ~InsertFails(audit_log, row, fail), fail)

\* log_event as a whole, by logger instance l
LogEventResult(l, random_part, in, fail) ==
    LogEventWithRow(l,
        BuildRow(BuildLogEntry(GenerateEventId(now, random_part),
                               IsoFormat(now), in),
                 last_log_hash[l]),
        fail)

\* A verifier that hashes every non-hash column of the row, created_at too.
ReconstructWithCreatedAt(row) ==
    [event_id |-> row.event_id,
     timestamp |-> row.timestamp,
     event_type |-> row.event_type,
     actor |-> row.actor,
     action |-> row.action,
     status |-> row.status,
     actor_ip |-> row.actor_ip,
     resource_type |-> row.resource_type,
     resource_id |-> row.resource_id,
     details |-> row.details,
     metadata |-> row.metadata,
     created_at |-> row.created_at]

\* verify_log_integrity, lines 305-318: the dict rebuilt from a stored row
ReconstructLogData(row) ==
    [event_id |-> row.event_id,
     timestamp |-> row.timestamp,
     event_type |-> row.event_type,
     actor |-> row.actor,
     action |-> row.action,
     status |-> row.status,
     actor_ip |-> row.actor_ip,
     resource_type |-> row.resource_type,
     resource_id |-> row.resource_id,
     details |-> row.details,
     metadata |-> row.metadata]

\* verify_log_integrity, lines 320-347: the violations one row adds
VerifyRow(row, expected_previous_hash) ==
    LET stored_hash == row.current_hash
    IN  (IF CalculateLogHash(ReconstructLogData(row)) # stored_hash
            THEN <<[event_id |-> row.event_id, issue |-> "Hash mismatch"]>>
            ELSE <<>>)
        \o (IF row.previous_hash # expected_previous_hash
               THEN <<[event_id |-> row.event_id, issue |-> "Chain broken"]>>
               ELSE <<>>)
        \o (IF SignLogEntry(stored_hash, row.previous_hash) # row.signature
               THEN <<[event_id |-> row.event_id, issue |-> "Signature invalid"]>>
               ELSE <<>>)

\* The loop of verify_log_integrity over rows[i..], expected_previous_hash
\* being the stored hash of the row before.
RECURSIVE VerifyFrom(_, _, _)
VerifyFrom(rows, i, expected_previous_hash) ==
    IF i > Len(rows) THEN <<>>
    ELSE VerifyRow(rows[i], expected_previous_hash)
         \o VerifyFrom(rows, i + 1, rows[i].current_hash)

\* The rows verify_log_integrity selects: one event, or the whole chain
\* when event_id is None or empty.
SelectRows(event_id) ==
    IF event_id # NULL /\ event_id # ""
    THEN SelectSeq(audit_log, LAMBDA r : r.event_id = event_id)
    ELSE audit_log

\* verify_log_integrity
VerifyResult(rows, tampering_detected) ==
    IF rows = <<>>
    THEN [valid |-> FALSE, error |-> "No logs found"]
    ELSE [valid |-> Len(tampering_detected) = 0,
          entries_checked |-> Len(rows),
          tampering_detected |-> tampering_detected,
          last_verified_hash |-> rows[Len(rows)].current_hash]

VerifyRows(rows) == VerifyResult(rows, VerifyFrom(rows, 1, Genesis))

VerifyLogIntegrity(event_id) == VerifyRows(SelectRows(event_id))

(***************************************************************************)
(* Inputs of log_event.                                                    *)
(***************************************************************************)
EventInput(event_type, actor, action, status, actor_ip, resource_type, resource_id, details, metadata) ==
    [event_type |-> event_type, actor |-> actor, action |-> action,
     status |-> status, actor_ip |-> actor_ip, resource_type |-> resource_type,
     resource_id |-> resource_id, details |-> details, metadata |-> metadata]

\* Every combination of present and absent optional arguments, with the
\* metadata absent, empty and non-empty.
AllInputs ==
    { EventInput("CONFIG_CHANGE", "admin", "set", "success", ip, rt, rid, de, md) :
        ip \in {NULL, "10.0.0.5"}, rt \in {NULL, "incident"},
        rid \in {NULL, "INC-1"}, de \in {NULL, "note"},
        md \in {NoDict, Dict(<<>>), Dict(<<<<"k", "v">>>>),
                Dict(<<<<"user_agent", NULL>>>>)} }

\* A few representative calls for the runs that grow the chain.
SomeInputs ==
    { EventInput("LOGIN_SUCCESS", "alice", "login", "success", "10.0.0.5",
                 NULL, NULL, NULL, NoDict),
      EventInput("DATA_EXPORT", "bob", "export", "denied", NULL,
                 "incident", "INC-1", "bulk", Dict(<<<<"rows", "10">>>>)) }

RandomParts == {"0A1B2C3D"}
Loggers == {"A"}

(***************************************************************************)
(* Operations of the audit logger, each call run to completion.            *)
(***************************************************************************)
\* TamperProofAuditLog.__init__ on the existing store (a process start)
LoggerInit(l) ==
    /\ l \in DOMAIN last_log_hash
    /\ last_log_hash' = [last_log_hash EXCEPT ![l] = GetLastLogHash(audit_log)]
    /\ ret' = [op |-> "__init__", logger |-> l]
    /\ UNCHANGED <<now, audit_log, failed_logins, jsonl, concVars, ztVars,
                   mw_enabled, tampered>>

\* log_event
LogEvent(l, random_part, in, fail) ==
    \E r \in {LogEventResult(l, random_part, in, fail)} :
        /\ l \in DOMAIN last_log_hash
        /\ audit_log' = r.log
        /\ last_log_hash' = r.last
        /\ jsonl' = r.mirror
        /\ ret' = [op |-> "log_event", logger |-> l, failure |-> fail,
                   raised |-> r.raised, committed |-> r.committed,
                   event_id |-> IF r.raised THEN NULL ELSE r.event_id]
        /\ UNCHANGED <<now, failed_logins, concVars, ztVars, mw_enabled, tampered>>

\* verify_log_integrity(event_id)
VerifyLogIntegrityCall(event_id) ==
    /\ ret' = [op |-> "verify_log_integrity", event_id |-> event_id,
               result |-> VerifyLogIntegrity(event_id)]
    /\ UNCHANGED <<now, auditVars, concVars, ztVars, mw_enabled, tampered>>

\* log_failed_login: the failed_logins row is committed first, then the
\* event goes to the chain through log_event.
LogFailedLogin(l, random_part, username, ip_address, reason, user_agent, fail) ==
    \E r \in {LogEventResult(l, random_part,
                    EventInput("LOGIN_FAILED", username,
                               "Failed login attempt: " \o reason, "failure",
                               ip_address, NULL, NULL, NULL,
                               Dict(<<<<"user_agent", user_agent>>>>)),
                    fail)} :
        /\ l \in DOMAIN last_log_hash
        /\ failed_logins' = Append(failed_logins,
               [username |-> username, ip_address |-> ip_address,
                timestamp |-> IsoFormat(now), reason |-> reason,
                user_agent |-> user_agent])
        /\ audit_log' = r.log
        /\ last_log_hash' = r.last
        /\ jsonl' = r.mirror
        /\ ret' = [op |-> "log_failed_login", logger |-> l, failure |-> fail,
                   raised |-> r.raised, committed |-> r.committed]
        /\ UNCHANGED <<now, concVars, ztVars, mw_enabled, tampered>>

\* The clock advances.
Tick ==
    /\ now < MaxTime
    /\ now' = now + 1
    /\ UNCHANGED <<auditVars, concVars, ztVars, mw_enabled, tampered, ret>>

(***************************************************************************)
(* The state after construction.                                           *)
(***************************************************************************)
Workers == {"w1", "w2"}

NoTamper == [index |-> 0, column |-> NULL]
NoCall == [op |-> "none"]
Idle == [pc |-> "idle"]

\* audit.db after _init_database on a fresh directory, one logger built on it
AuditInit ==
    /\ audit_log = <<>>
    /\ failed_logins = <<>>
    /\ jsonl = <<>>
    /\ last_log_hash = [l \in Loggers |-> GetLastLogHash(<<>>)]
    /\ workers = [w \in Workers |-> Idle]
    /\ db_lock = NULL
    /\ tampered = NoTamper

\* zt.db after ZeroTrustFramework._init_database on a fresh directory
ZeroTrustInit ==
    /\ devices = <<>>
    /\ sessions = <<>>
    /\ access_requests = <<>>
    /\ behavior_baseline = <<>>
    /\ anomalies = <<>>

Init ==
    /\ now = 0
    /\ AuditInit
    /\ ZeroTrustInit
    /\ mw_enabled = TRUE
    /\ ret = NoCall

(***************************************************************************)
(* Spec: one logger instance on one store, calls made one after another.   *)
(***************************************************************************)
\* The event ids a verification may be asked about: stored ones and one
\* that is not in the log.
KnownEventIds == {audit_log[i].event_id : i \in 1..Len(audit_log)}

Next ==
    \/ \E l \in Loggers, rp \in RandomParts, in \in SomeInputs, fail \in Failures :
          LogEvent(l, rp, in, fail)
    \/ \E l \in Loggers, rp \in RandomParts, u \in {"alice"}, ip \in {"203.0.113.9"},
          fail \in Failures :
          /\ Len(failed_logins) < MaxFailedLogins
          /\ LogFailedLogin(l, rp, u, ip, "Invalid credentials", NULL, fail)
    \/ \E e \in KnownEventIds \cup {NULL, "AUD-missing"} : VerifyLogIntegrityCall(e)
    \/ \E l \in Loggers : LoggerInit(l)
    \/ Tick

Spec == Init /\ [][Next]_vars

(***************************************************************************)
(* SpecFields: one logger, every combination of log_event's arguments.     *)
(***************************************************************************)
NextFields ==
    \/ \E l \in Loggers, rp \in RandomParts, in \in AllInputs :
          Len(audit_log) < MaxFieldLog /\ LogEvent(l, rp, in, "none")
    \/ VerifyLogIntegrityCall(NULL)
    \/ Tick

SpecFields == Init /\ [][NextFields]_vars

(***************************************************************************)
(* SpecMulti: two logger instances (two server processes) on one store,    *)
(* each call run to completion before the next starts.                     *)
(***************************************************************************)
Processes == {"A", "B"}

InitMulti ==
    /\ now = 0
    /\ audit_log = <<>>
    /\ failed_logins = <<>>
    /\ jsonl = <<>>
    /\ last_log_hash = [l \in Processes |-> GetLastLogHash(<<>>)]
    /\ workers = [w \in Workers |-> Idle]
    /\ db_lock = NULL
    /\ tampered = NoTamper
    /\ ZeroTrustInit
    /\ mw_enabled = TRUE
    /\ ret = NoCall

NextMulti ==
    \/ \E l \in Processes, rp \in RandomParts, in \in SomeInputs,
          fail \in {"none", "insert"} :
          LogEvent(l, rp, in, fail)
    \/ VerifyLogIntegrityCall(NULL)
    \/ \E l \in Processes : LoggerInit(l)
    \/ Tick

SpecMulti == InitMulti /\ [][NextMulti]_vars

(***************************************************************************)
(* Claims about the audit chain.                                           *)
(***************************************************************************)
ChainLinked(rows) ==
    /\ Len(rows) >= 1 => rows[1].previous_hash = Genesis
    /\ \A i \in 2..Len(rows) : rows[i].previous_hash = rows[i - 1].current_hash

\* C1: after any sequence of log_event calls on one logger, failing ones
\* and restarts on the existing store included, the first stored entry's
\* previous_hash is the genesis constant and every later entry's
\* previous_hash is the current_hash of the entry before it.
C1_ChainLinked == ChainLinked(audit_log)

\* C1 witness: a chain of two entries after which a log_event call failed.
C1_Witness ==
    /\ Len(audit_log) >= 2
    /\ ret.op = "log_event"
    /\ ret.raised

\* C3: on a log with at least one entry written only through log_event,
\* verify_log_integrity() over the whole chain returns valid = true, no
\* violation, and entries_checked = the number of stored entries.
C3_UntouchedLogVerifies ==
    (ret.op = "verify_log_integrity" /\ ret.event_id = NULL /\ Len(audit_log) >= 1)
        => /\ ret.result.valid
           /\ ret.result.tampering_detected = <<>>
           /\ ret.result.entries_checked = Len(audit_log)

\* C5: for every row log_event wrote, the hash verify_log_integrity
\* recomputes from the stored columns equals the stored current_hash.
C5_HashRoundTrip ==
    \A i \in 1..Len(audit_log) :
        CalculateLogHash(ReconstructLogData(audit_log[i])) = audit_log[i].current_hash

\* C5 witness: a stored row with every optional column NULL and one with
\* every optional column set, its metadata a dict holding a None.
C5_Witness ==
    /\ ret.op = "verify_log_integrity"
    /\ \E i \in 1..Len(audit_log) :
          \/ /\ audit_log[i].actor_ip = NULL
             /\ audit_log[i].details = NULL
             /\ audit_log[i].metadata = NULL
          \/ /\ audit_log[i].actor_ip # NULL
             /\ audit_log[i].resource_id # NULL
             /\ audit_log[i].details # NULL
             /\ audit_log[i].metadata = "{\"user_agent\": null}"

\* C8: a log_event call whose durable insert does not complete raises,
\* adds no row and leaves the last-hash cache as it was; the cache changes
\* only in a step that appends the row whose hash it then holds.
C8_FailedWriteLeavesNoTrace ==
    [][ /\ (ret'.op \in {"log_event", "log_failed_login"} /\ ~ret'.committed)
            => /\ ret'.raised
               /\ audit_log' = audit_log
               /\ last_log_hash' = last_log_hash
        /\ (last_log_hash' # last_log_hash)
            => /\ Len(audit_log') = Len(audit_log) + 1
               /\ SubSeq(audit_log', 1, Len(audit_log)) = audit_log
               /\ \E l \in DOMAIN last_log_hash :
                     last_log_hash'[l] = audit_log'[Len(audit_log')].current_hash
      ]_vars

\* C8 witness: a log_event call that failed at the INSERT or the commit on
\* a store that already holds an entry.
C8_Witness ==
    /\ ret.op = "log_event"
    /\ ret.failure \in {"insert", "commit"}
    /\ ret.raised
    /\ Len(audit_log) >= 1

(***************************************************************************)
(* SpecTamper: one logger, and one out-of-band UPDATE of one column of one *)
(* stored row (somebody with write access to audit.db).                    *)
(***************************************************************************)
NullableColumns == {"actor_ip", "resource_type", "resource_id", "details", "metadata"}
TextColumns ==
    {"event_id", "timestamp", "event_type", "actor", "action", "status",
     "created_at"} \cup NullableColumns
HashColumns == {"previous_hash", "current_hash"}
Columns == TextColumns \cup HashColumns \cup {"signature"}

\* The values an edit can put into column c: a foreign value, NULL where
\* the schema allows it, and the values other rows hold in that column
\* (event_id is UNIQUE, so it cannot take another row's).
TamperValues(c) ==
    IF c \in TextColumns
    THEN {"TAMPERED"}
         \cup (IF c \in NullableColumns THEN {NULL} ELSE {})
         \cup (IF c = "event_id" THEN {}
               ELSE {audit_log[j][c] : j \in 1..Len(audit_log)})
    ELSE IF c \in HashColumns
    THEN {Genesis, Sha256(<<"TAMPERED">>)}
         \cup {audit_log[j].current_hash : j \in 1..Len(audit_log)}
         \cup {audit_log[j].previous_hash : j \in 1..Len(audit_log)}
    ELSE {HmacSha256("attacker", <<"TAMPERED">>)}
         \cup {audit_log[j].signature : j \in 1..Len(audit_log)}

Tamper(i, c, v) ==
    /\ tampered.index = 0
    /\ i \in 1..Len(audit_log)
    /\ v # audit_log[i][c]
    /\ audit_log' = [audit_log EXCEPT ![i][c] = v]
    /\ tampered' = [index |-> i, column |-> c, event_id |-> audit_log[i].event_id]
    /\ ret' = NoCall
    /\ UNCHANGED <<now, failed_logins, jsonl, last_log_hash, concVars, ztVars,
                   mw_enabled>>

NextTamper ==
    \/ \E l \in Loggers, rp \in RandomParts, in \in SomeInputs :
          tampered.index = 0 /\ LogEvent(l, rp, in, "none")
    \/ \E i \in 1..Len(audit_log), c \in Columns :
          \E v \in TamperValues(c) : Tamper(i, c, v)
    \/ VerifyLogIntegrityCall(NULL)
    \/ Tick

SpecTamper == Init /\ [][NextTamper]_vars

\* The violations a verification reported for the edited row, under the
\* event_id it had when written or the one it holds now.
NamesTamperedEntry(result) ==
    \E k \in 1..Len(result.tampering_detected) :
        result.tampering_detected[k].event_id
            \in {tampered.event_id, audit_log[tampered.index].event_id}

\* C4: after changing any single column of any single stored entry to a
\* different value, verify_log_integrity() returns valid = false and at
\* least one violation carries that entry's event_id.
C4_AnyEditDetected ==
    (ret.op = "verify_log_integrity" /\ tampered.index # 0)
        => /\ ~ret.result.valid
           /\ NamesTamperedEntry(ret.result)

\* What the verifier does detect: an edit of any column other than
\* created_at.
HashedColumnEditDetected ==
    (ret.op = "verify_log_integrity" /\ tampered.index # 0
        /\ tampered.column # "created_at")
        => /\ ~ret.result.valid
           /\ NamesTamperedEntry(ret.result)

(***************************************************************************)
(* SpecConc: worker threads of one process share one logger instance and   *)
(* run log_event with their steps interleaved.  audit.db admits one        *)
(* writing transaction at a time: the INSERT takes the write lock and the  *)
(* commit or rollback releases it.                                         *)
(***************************************************************************)
TheLogger == "A"

Active == {w \in Workers : workers[w].pc # "idle"}

\* lines 210-236: build the entry; previous_hash = self.last_log_hash
WorkerBuild(w, random_part, in) ==
    /\ workers[w].pc = "idle"
    /\ Len(audit_log) + Cardinality(Active) < MaxWorkerCalls
    /\ workers' = [workers EXCEPT ![w] =
          [pc |-> "built",
           row |-> BuildRow(BuildLogEntry(GenerateEventId(now, random_part),
                                          IsoFormat(now), in),
                            last_log_hash[TheLogger])]]
    /\ UNCHANGED <<now, auditVars, db_lock, ztVars, mw_enabled, tampered, ret>>

\* lines 243-253: cursor.execute(INSERT); an IntegrityError goes to the
\* except clause: rollback, raise
WorkerInsert(w) ==
    /\ workers[w].pc = "built"
    /\ db_lock = NULL
    /\ IF InsertFails(audit_log, workers[w].row, "none")
       THEN /\ workers' = [workers EXCEPT ![w] = Idle]
            /\ ret' = [op |-> "log_event", logger |-> TheLogger, failure |-> "insert",
                       raised |-> TRUE, committed |-> FALSE, event_id |-> NULL]
            /\ UNCHANGED db_lock
       ELSE /\ workers' = [workers EXCEPT ![w].pc = "inserted"]
            /\ db_lock' = w
            /\ UNCHANGED ret
    /\ UNCHANGED <<now, auditVars, ztVars, mw_enabled, tampered>>

\* line 255: conn.commit()
WorkerCommit(w) ==
    /\ workers[w].pc = "inserted"
    /\ db_lock = w
    /\ audit_log' = Append(audit_log, workers[w].row)
    /\ db_lock' = NULL
    /\ workers' = [workers EXCEPT ![w].pc = "committed"]
    /\ UNCHANGED <<now, failed_logins, jsonl, last_log_hash, ztVars, mw_enabled,
                   tampered, ret>>

\* line 258: self.last_log_hash = current_hash
WorkerUpdateCache(w) ==
    /\ workers[w].pc = "committed"
    /\ last_log_hash' = [last_log_hash EXCEPT ![TheLogger] = workers[w].row.current_hash]
    /\ workers' = [workers EXCEPT ![w].pc = "cached"]
    /\ UNCHANGED <<now, audit_log, failed_logins, jsonl, db_lock, ztVars,
                   mw_enabled, tampered, ret>>

\* lines 261-264: the mirror line, return event_id
WorkerReturn(w) ==
    /\ workers[w].pc = "cached"
    /\ jsonl' = Append(jsonl, workers[w].row.event_id)
    /\ workers' = [workers EXCEPT ![w] = Idle]
    /\ ret' = [op |-> "log_event", logger |-> TheLogger, failure |-> "none",
               raised |-> FALSE, committed |-> TRUE,
               event_id |-> workers[w].row.event_id]
    /\ UNCHANGED <<now, audit_log, failed_logins, last_log_hash, db_lock, ztVars,
                   mw_enabled, tampered>>

NextConc ==
    \/ \E w \in Workers, rp \in {"0A1B2C3D", "4E5F6A7B"}, in \in SomeInputs :
          WorkerBuild(w, rp, in)
    \/ \E w \in Workers : WorkerInsert(w)
    \/ \E w \in Workers : WorkerCommit(w)
    \/ \E w \in Workers : WorkerUpdateCache(w)
    \/ \E w \in Workers : WorkerReturn(w)

SpecConc == Init /\ [][NextConc]_vars

\* C2: with the steps of concurrent log_event calls interleaved in any
\* order, no two stored entries share the same previous_hash.
C2_NoFork ==
    \A i, j \in 1..Len(audit_log) :
        i # j => audit_log[i].previous_hash # audit_log[j].previous_hash

(***************************************************************************)
(* zero_trust.py.  A text whose prefix or words the code tests (an IP      *)
(* address, a request path, an anomaly description) is a sequence of       *)
(* tokens; Text joins the tokens into the string that is stored or hashed. *)
(* Timestamps of zt.db are kept as the clock value they were taken at:     *)
(* ISO-8601 strings of one format order as their instants do.              *)
(***************************************************************************)
RECURSIVE Text(_)
Text(tokens) == IF tokens = <<>> THEN "" ELSE Head(tokens) \o Text(Tail(tokens))

StartsWith(s, prefix) ==
    Len(prefix) <= Len(s) /\ SubSeq(s, 1, Len(prefix)) = prefix

HexDigest(text) == "sha256(" \o text \o ")"

\* dict.get(key, default) on a dict given as a sequence of <<key, value>>
DictGet(items, key, default) ==
    IF \E i \in 1..Len(items) : items[i][1] = key
    THEN items[CHOOSE i \in 1..Len(items) : items[i][1] = key][2]
    ELSE default

TrustedLocations ==
    {"New Delhi", "Delhi", "Mumbai", "Bangalore", "Chennai",
     "Pune", "Secunderabad", "Lucknow", "Jabalpur", "Chandigarh"}

\* context: the location dict of a request context, or no 'location' key
NoLocation == [present |-> FALSE, city |-> NULL, country |-> NULL]
Location(city, country) == [present |-> TRUE, city |-> city, country |-> country]
City(context) == IF context.present THEN context.city ELSE "Unknown"
Country(context) == IF context.present THEN context.country ELSE "Unknown"

GenerateDeviceId(user_agent, ip, user_id) ==
    HexDigest(user_agent \o "|" \o Text(ip) \o "|" \o user_id)

NewDeviceRow(device_id, user_id, user_agent, ip_address, device_info, timestamp) ==
    [device_id |-> device_id, user_id |-> user_id, user_agent |-> user_agent,
     ip_address |-> ip_address,
     os |-> DictGet(device_info, "os", "Unknown"),
     browser |-> DictGet(device_info, "browser", "Unknown"),
     screen_resolution |-> DictGet(device_info, "screen_resolution", "Unknown"),
     timezone |-> DictGet(device_info, "timezone", "Unknown"),
     language |-> DictGet(device_info, "language", "en"),
     first_seen |-> timestamp, last_seen |-> timestamp,
     total_sessions |-> 1, trust_score |-> 50, is_trusted |-> FALSE,
     is_blocked |-> FALSE, anomaly_count |-> 0, created_at |-> timestamp]

\* the devices table after register_device
RegisterDeviceRows(device_id, user_id, user_agent, ip_address, device_info, timestamp) ==
    IF \E i \in 1..Len(devices) : devices[i].device_id = device_id
    THEN [i \in 1..Len(devices) |->
            IF devices[i].device_id = device_id
            THEN [devices[i] EXCEPT !.last_seen = timestamp,
                                    !.total_sessions = @ + 1,
                                    !.ip_address = ip_address]
            ELSE devices[i]]
    ELSE Append(devices, NewDeviceRow(device_id, user_id, user_agent, ip_address,
                                      device_info, timestamp))

\* the DeviceFingerprint register_device returns, given the table it left
DeviceFingerprint(device_id, rows, user_agent, ip_address, device_info, timestamp) ==
    [device_id |-> device_id, user_agent |-> user_agent, ip_address |-> ip_address,
     os |-> DictGet(device_info, "os", "Unknown"),
     browser |-> DictGet(device_info, "browser", "Unknown"),
     screen_resolution |-> DictGet(device_info, "screen_resolution", "Unknown"),
     timezone |-> DictGet(device_info, "timezone", "Unknown"),
     language |-> DictGet(device_info, "language", "en"),
     first_seen |-> rows[CHOOSE i \in 1..Len(rows) : rows[i].device_id = device_id].first_seen,
     last_seen |-> timestamp,
     trust_score |-> rows[CHOOSE i \in 1..Len(rows) : rows[i].device_id = device_id].trust_score,
     is_trusted |-> rows[CHOOSE i \in 1..Len(rows) : rows[i].device_id = device_id].is_trusted]

RegisterDeviceResult(device_id, rows, user_agent, ip_address, device_info, timestamp) ==
    [devices |-> rows,
     fingerprint |-> DeviceFingerprint(device_id, rows, user_agent, ip_address,
                                       device_info, timestamp)]

RegisterDevice(user_id, user_agent, ip_address, device_info) ==
    RegisterDeviceResult(
        GenerateDeviceId(user_agent, ip_address, user_id),
        RegisterDeviceRows(GenerateDeviceId(user_agent, ip_address, user_id),
                           user_id, user_agent, ip_address, device_info, now),
        user_agent, ip_address, device_info, now)

(***************************************************************************)
(* calculate_risk_score: seven factors, each a delta with the anomalies    *)
(* and trust factors it reports, summed and clamped.                       *)
(***************************************************************************)
Factor(delta, found, trust_factors) ==
    [delta |-> delta, anomalies |-> found, trust_factors |-> trust_factors]

NoFactor == Factor(0, <<>>, <<>>)

Combine(f, g) ==
    Factor(f.delta + g.delta, f.anomalies \o g.anomalies,
           f.trust_factors \o g.trust_factors)

\* a device factor without the bonus for a trusted device
DeviceTrustFactorNoBonus(row) ==
    IF row.trust_score < 30 THEN Factor(30, << <<"Untrusted device">> >>, <<>>)
    ELSE IF row.trust_score < 50 THEN Factor(20, <<>>, <<>>)
    ELSE NoFactor

DeviceTrustFactor(row) ==
    IF row.trust_score < 30 THEN Factor(30, << <<"Untrusted device">> >>, <<>>)
    ELSE IF row.trust_score < 50 THEN Factor(20, <<>>, <<>>)
    ELSE IF row.trust_score > 80 /\ row.is_trusted
         THEN Factor(-10, <<>>, <<"DEVICE_KNOWN">>)
    ELSE NoFactor

DeviceSessionsFactor(row) ==
    IF row.total_sessions < 3
    THEN Factor(10, << <<"New device (< 3 sessions)">> >>, <<>>)
    ELSE NoFactor

\* rows: the devices table as the call finds it
DeviceFactor(rows, device_id) ==
    IF \E i \in 1..Len(rows) : rows[i].device_id = device_id
    THEN Combine(DeviceTrustFactor(
                    rows[CHOOSE i \in 1..Len(rows) : rows[i].device_id = device_id]),
                 DeviceSessionsFactor(
                    rows[CHOOSE i \in 1..Len(rows) : rows[i].device_id = device_id]))
    ELSE Factor(30, << <<"Unknown device">> >>, <<>>)

LocationFactor(city, country) ==
    IF country # "India"
    THEN Factor(25, << <<"Access from ", "foreign country", ": ", country>> >>, <<>>)
    ELSE IF city \in TrustedLocations THEN Factor(-5, <<>>, <<"LOCATION_NORMAL">>)
    ELSE Factor(10, <<>>, <<>>)

IstHour(t) == ((t % 24) + 5) % 24

TimeFactor(ist_hour) ==
    IF ist_hour < 6 \/ ist_hour > 22
    THEN Factor(15, << <<"Unusual", " access time: ", ToString(ist_hour), ":00 IST">> >>, <<>>)
    ELSE Factor(0, <<>>, <<"TIME_NORMAL">>)

BaselineIndex(user_id) ==
    {i \in 1..Len(behavior_baseline) : behavior_baseline[i].user_id = user_id}

Contains(list, x) == \E i \in 1..Len(list) : list[i] = x

BaselineHourFactor(typical_hours, ist_hour) ==
    IF ~Contains(typical_hours, ist_hour)
    THEN Factor(10, << <<"Unusual", " hour compared to user baseline">> >>, <<>>)
    ELSE Factor(0, <<>>, <<"BEHAVIOR_NORMAL">>)

BaselineLocationFactor(typical_locations, city) ==
    IF ~Contains(typical_locations, city) /\ Len(typical_locations) > 0
    THEN Factor(10, << <<"Unusual", " location compared to user baseline">> >>, <<>>)
    ELSE NoFactor

BehaviorFactor(user_id, ist_hour, city) ==
    IF BaselineIndex(user_id) # {}
    THEN Combine(
           BaselineHourFactor(
             behavior_baseline[CHOOSE i \in BaselineIndex(user_id) : TRUE].typical_hours,
             ist_hour),
           BaselineLocationFactor(
             behavior_baseline[CHOOSE i \in BaselineIndex(user_id) : TRUE].typical_locations,
             city))
    ELSE NoFactor

high_risk_actions == {"export_data", "delete_incident", "change_role", "access_classified"}
medium_risk_actions == {"create_incident", "update_incident", "upload_file"}

\* an action factor that takes every listed action as one of medium risk
ActionFactorMedium(action) ==
    IF action \in high_risk_actions \cup medium_risk_actions
    THEN Factor(10, <<>>, <<>>)
    ELSE NoFactor

ActionFactor(action) ==
    IF action \in high_risk_actions THEN Factor(20, <<>>, <<>>)
    ELSE IF action \in medium_risk_actions THEN Factor(10, <<>>, <<>>)
    ELSE NoFactor

CheckTrustedNetwork(ip) ==
    \/ StartsWith(ip, <<"10", ".">>)
    \/ StartsWith(ip, <<"192", ".", "168", ".">>)
    \/ StartsWith(ip, <<"172", ".">>)

NetworkFactor(ip_address) ==
    IF CheckTrustedNetwork(ip_address)
    THEN Factor(-10, <<>>, <<"ARMY_NETWORK">>)
    ELSE Factor(10, <<>>, <<>>)

RecentAnomalies(user_id) ==
    Cardinality({i \in 1..Len(anomalies) :
                    /\ anomalies[i].user_id = user_id
                    /\ anomalies[i].detected_at > now - 24
                    /\ ~anomalies[i].resolved})

AnomalyFactor(recent_anomalies) ==
    IF recent_anomalies > 3
    THEN Factor(10, << <<"Multiple recent anomalies: ", ToString(recent_anomalies)>> >>, <<>>)
    ELSE NoFactor

RiskFactors(rows, user_id, device_id, ip_address, action, context) ==
    Combine(DeviceFactor(rows, device_id),
    Combine(LocationFactor(City(context), Country(context)),
    Combine(TimeFactor(IstHour(now)),
    Combine(BehaviorFactor(user_id, IstHour(now), City(context)),
    Combine(ActionFactor(action),
    Combine(NetworkFactor(ip_address),
            AnomalyFactor(RecentAnomalies(user_id))))))))

\* The sum of the factors left as it is.
Unclamped(risk_score) == risk_score

\* max(0, min(100, risk_score))
Clamp(risk_score) ==
    IF risk_score > 100 THEN 100 ELSE IF risk_score < 0 THEN 0 ELSE risk_score

RiskLevelOf(risk_score) ==
    IF risk_score <= 20 THEN "TRUSTED"
    ELSE IF risk_score <= 40 THEN "LOW_RISK"
    ELSE IF risk_score <= 60 THEN "MEDIUM_RISK"
    ELSE IF risk_score <= 80 THEN "HIGH_RISK"
    ELSE "CRITICAL"

GetRecommendation(risk_score, found) ==
    IF risk_score >= 80
    THEN "DENY ACCESS - Critical risk detected. Require admin approval and MFA."
    ELSE IF risk_score >= 60
    THEN "CHALLENGE - High risk detected. Require additional MFA verification."
    ELSE IF risk_score >= 40
    THEN "MONITOR - Medium risk. Allow but log all actions closely."
    ELSE IF risk_score >= 20
    THEN "ALLOW - Low risk. Standard monitoring applies."
    ELSE "ALLOW - Trusted context. Normal operations."

Assessment(risk_score, total) ==
    [risk_score |-> risk_score,
     risk_level |-> RiskLevelOf(risk_score),
     trust_factors |-> total.trust_factors,
     anomalies_detected |-> total.anomalies,
     requires_mfa |-> risk_score > 60,
     requires_approval |-> risk_score > 80,
     allow_access |-> risk_score < 70,
     recommendation |-> GetRecommendation(risk_score, total.anomalies)]

AssessFactors(total) == Assessment(Clamp(total.delta), total)

\* calculate_risk_score reading the devices table rows
CalculateRiskScoreOn(rows, user_id, device_id, ip_address, action, resource, context) ==
    AssessFactors(RiskFactors(rows, user_id, device_id, ip_address, action, context))

CalculateRiskScore(user_id, device_id, ip_address, action, resource, context) ==
    CalculateRiskScoreOn(devices, user_id, device_id, ip_address, action,
                         resource, context)

(***************************************************************************)
(* Sessions.                                                               *)
(***************************************************************************)
SessionIndex(session_id) ==
    {i \in 1..Len(sessions) : sessions[i].session_id = session_id}

\* A lookup that ignores is_active.
AnySessionIndex(session_id) == SessionIndex(session_id)

\* SELECT ... FROM sessions WHERE session_id = ? AND is_active = 1
ActiveSessionIndex(session_id) ==
    {i \in SessionIndex(session_id) : sessions[i].is_active}

SessionId(user_id, device_id, t) == HexDigest(user_id \o device_id \o IsoFormat(t))

\* words in anomaly.lower(); "Unusual" is the one token lower() changes
Mentions(anomaly, words) ==
    \E i \in 1..Len(anomaly) :
        (IF anomaly[i] = "Unusual" THEN "unusual" ELSE anomaly[i]) = words

Severity(anomaly) ==
    IF Mentions(anomaly, "foreign country") \/ Mentions(anomaly, "critical")
    THEN "CRITICAL"
    ELSE IF Mentions(anomaly, "unusual") THEN "MEDIUM"
    ELSE "LOW"

\* the anomalies table after _log_anomalies
LogAnomalies(user_id, session_id, found) ==
    anomalies \o
    [i \in 1..Len(found) |->
        [user_id |-> user_id, session_id |-> session_id,
         anomaly_type |-> "behavioral", severity |-> Severity(found[i]),
         description |-> Text(found[i]), detected_at |-> now,
         resolved |-> FALSE]]

NewSessionRow(session_id, user_id, device_id, ip_address, context, risk_assessment) ==
    [session_id |-> session_id, user_id |-> user_id, device_id |-> device_id,
     ip_address |-> ip_address, location |-> context,
     started_at |-> now, last_activity |-> now,
     risk_score |-> risk_assessment.risk_score,
     trust_level |-> risk_assessment.risk_level,
     is_active |-> TRUE,
     anomalies |-> risk_assessment.anomalies_detected,
     terminated_reason |-> NULL]

SessionContext(session_id, user_id, username, device_id, ip_address, context, risk_assessment) ==
    [session_id |-> session_id, user_id |-> user_id, username |-> username,
     device_id |-> device_id, ip_address |-> ip_address, location |-> context,
     timestamp |-> now, action |-> "login", resource |-> "session",
     risk_score |-> risk_assessment.risk_score,
     trust_factors |-> risk_assessment.trust_factors,
     anomalies_detected |-> risk_assessment.anomalies_detected]

\* create_session once the session id and the initial assessment are known;
\* session_id is the primary key, so a second INSERT of one id raises
CreateSessionWith(session_id, user_id, username, device_id, ip_address, context, risk_assessment) ==
    IF SessionIndex(session_id) # {}
    THEN /\ UNCHANGED <<sessions, anomalies>>
         /\ ret' = [op |-> "create_session", raised |-> TRUE,
                    session_id |-> session_id]
    ELSE /\ sessions' = Append(sessions,
                NewSessionRow(session_id, user_id, device_id, ip_address,
                              context, risk_assessment))
         /\ anomalies' = LogAnomalies(user_id, session_id,
                                      risk_assessment.anomalies_detected)
         /\ ret' = [op |-> "create_session", raised |-> FALSE,
                    session_id |-> session_id,
                    session |-> SessionContext(session_id, user_id, username,
                                   device_id, ip_address, context, risk_assessment)]

CreateSession(user_id, username, device_id, ip_address, context) ==
    /\ CreateSessionWith(SessionId(user_id, device_id, now), user_id, username,
                         device_id, ip_address, context,
                         CalculateRiskScore(user_id, device_id, ip_address,
                                            "login", "session", context))
    /\ UNCHANGED <<now, auditVars, concVars, devices, access_requests,
                   behavior_baseline, mw_enabled, tampered>>

SessionInvalid ==
    [allowed |-> FALSE, reason |-> "Invalid or expired session",
     risk_score |-> 100, requires_reauth |-> TRUE]

\* an access_requests row that is stored as allowed whatever was decided
AccessRequestRowAllowed(session_id, user_id, action, resource, risk_assessment) ==
    [session_id |-> session_id, user_id |-> user_id, resource |-> resource,
     action |-> action, timestamp |-> now,
     risk_score |-> risk_assessment.risk_score,
     decision |-> "ALLOW",
     factors |-> [trust_factors |-> risk_assessment.trust_factors,
                  anomalies |-> risk_assessment.anomalies_detected]]

AccessRequestRow(session_id, user_id, action, resource, risk_assessment) ==
    [session_id |-> session_id, user_id |-> user_id, resource |-> resource,
     action |-> action, timestamp |-> now,
     risk_score |-> risk_assessment.risk_score,
     decision |-> IF risk_assessment.allow_access THEN "ALLOW" ELSE "DENY",
     factors |-> [trust_factors |-> risk_assessment.trust_factors,
                  anomalies |-> risk_assessment.anomalies_detected]]

AccessDecision(risk_assessment) ==
    [allowed |-> risk_assessment.allow_access,
     risk_score |-> risk_assessment.risk_score,
     risk_level |-> risk_assessment.risk_level,
     requires_mfa |-> risk_assessment.requires_mfa,
     requires_approval |-> risk_assessment.requires_approval,
     recommendation |-> risk_assessment.recommendation,
     trust_factors |-> risk_assessment.trust_factors,
     anomalies |-> risk_assessment.anomalies_detected]

\* the sessions table after a session update that also ends the session
\* when the request was refused
UpdateSessionRiskEnding(rows, session_id, timestamp, risk_score) ==
    [i \in 1..Len(rows) |->
        IF rows[i].session_id = session_id
        THEN [rows[i] EXCEPT !.last_activity = timestamp,
                             !.risk_score = risk_score,
                             !.is_active = risk_score < 70,
                             !.terminated_reason =
                                 IF risk_score < 70 THEN @ ELSE "Access denied"]
        ELSE rows[i]]

\* the sessions table after an update that writes the risk score alone
UpdateSessionRiskOnly(rows, session_id, timestamp, risk_score) ==
    [i \in 1..Len(rows) |->
        IF rows[i].session_id = session_id
        THEN [rows[i] EXCEPT !.risk_score = risk_score]
        ELSE rows[i]]

\* UPDATE sessions SET last_activity = ?, risk_score = ? WHERE session_id = ?
UpdateSessionRisk(rows, session_id, timestamp, risk_score) ==
    [i \in 1..Len(rows) |->
        IF rows[i].session_id = session_id
        THEN [rows[i] EXCEPT !.last_activity = timestamp,
                             !.risk_score = risk_score]
        ELSE rows[i]]

\* verify_access past the session lookup: record the request, update the
\* session, answer with the assessment
VerifyAccessWith(session_id, user_id, action, resource, risk_assessment) ==
    /\ access_requests' = Append(access_requests,
            AccessRequestRow(session_id, user_id, action, resource, risk_assessment))
    /\ sessions' = UpdateSessionRisk(sessions, session_id, now,
                                     risk_assessment.risk_score)
    /\ ret' = [op |-> "verify_access", session_id |-> session_id,
               user_id |-> user_id, action |-> action,
               result |-> AccessDecision(risk_assessment)]

VerifyAccess(session_id, user_id, action, resource, context) ==
    /\ IF ActiveSessionIndex(session_id) = {}
       THEN /\ UNCHANGED <<sessions, access_requests>>
            /\ ret' = [op |-> "verify_access", session_id |-> session_id,
                       user_id |-> user_id, action |-> action,
                       result |-> SessionInvalid]
       ELSE \E i \in {CHOOSE j \in ActiveSessionIndex(session_id) : TRUE} :
              VerifyAccessWith(session_id, user_id, action, resource,
                  CalculateRiskScore(user_id, sessions[i].device_id,
                                     sessions[i].ip_address, action, resource,
                                     context))
    /\ UNCHANGED <<now, auditVars, concVars, devices, behavior_baseline,
                   anomalies, mw_enabled, tampered>>

\* terminate_session with an UPDATE that has no WHERE clause
TerminateEverySession(session_id, reason) ==
    /\ sessions' = [i \in 1..Len(sessions) |->
            [sessions[i] EXCEPT !.is_active = FALSE,
                                !.terminated_reason = reason]]
    /\ ret' = [op |-> "terminate_session", session_id |-> session_id]
    /\ UNCHANGED <<now, auditVars, concVars, devices, access_requests,
                   behavior_baseline, anomalies, mw_enabled, tampered>>

TerminateSession(session_id, reason) ==
    /\ sessions' = [i \in 1..Len(sessions) |->
            IF sessions[i].session_id = session_id
            THEN [sessions[i] EXCEPT !.is_active = FALSE,
                                     !.terminated_reason = reason]
            ELSE sessions[i]]
    /\ ret' = [op |-> "terminate_session", session_id |-> session_id]
    /\ UNCHANGED <<now, auditVars, concVars, devices, access_requests,
                   behavior_baseline, anomalies, mw_enabled, tampered>>

RegisterDeviceCall(user_id, user_agent, ip_address, device_info) ==
    /\ \E r \in {RegisterDevice(user_id, user_agent, ip_address, device_info)} :
          /\ devices' = r.devices
          /\ ret' = [op |-> "register_device", user_id |-> user_id,
                     fingerprint |-> r.fingerprint]
    /\ UNCHANGED <<now, auditVars, concVars, sessions, access_requests,
                   behavior_baseline, anomalies, mw_enabled, tampered>>

CalculateRiskScoreCall(user_id, device_id, ip_address, action, resource, context) ==
    /\ ret' = [op |-> "calculate_risk_score", user_id |-> user_id,
               device_id |-> device_id, ip_address |-> ip_address,
               action |-> action, context |-> context,
               result |-> CalculateRiskScore(user_id, device_id, ip_address,
                                             action, resource, context)]
    /\ UNCHANGED <<now, auditVars, concVars, ztVars, mw_enabled, tampered>>

(***************************************************************************)
(* SpecRisk: the scoring engine over the states zt.db can hold.  The       *)
(* device's trust_score / is_trusted, the behaviour baseline and the       *)
(* resolved flag of an anomaly are written by administration outside this  *)
(* code, so the initial state draws them.                                  *)
(***************************************************************************)
InternalIp == <<"10", ".", "0", ".", "0", ".", "5">>
PublicIp == <<"203", ".", "0", ".", "113", ".", "9">>

KnownDevice(trust_score, is_trusted, total_sessions) ==
    [NewDeviceRow(GenerateDeviceId("Mozilla/5.0", InternalIp, "u1"), "u1",
                  "Mozilla/5.0", InternalIp, <<>>, 0)
        EXCEPT !.trust_score = trust_score, !.is_trusted = is_trusted,
               !.total_sessions = total_sessions]

Baseline(user_id, typical_hours, typical_locations) ==
    [user_id |-> user_id, typical_hours |-> typical_hours,
     typical_locations |-> typical_locations]

PastAnomaly(user_id, detected_at, resolved) ==
    [user_id |-> user_id, session_id |-> NULL, anomaly_type |-> "behavioral",
     severity |-> "LOW", description |-> "Unknown device",
     detected_at |-> detected_at, resolved |-> resolved]

InitRisk ==
    /\ now = 0
    /\ AuditInit
    /\ devices \in
          {<<>>} \cup
          {<<KnownDevice(t, b, n)>> :
              t \in {29, 30, 49, 50, 80, 81, 90}, b \in BOOLEAN, n \in {2, 3}}
    /\ sessions = <<>>
    /\ access_requests = <<>>
    /\ behavior_baseline \in
          {<<>>} \cup
          {<<Baseline("u1", h, l)>> :
              h \in {<<>>, <<6, 7>>}, l \in {<<>>, <<"Delhi">>}}
    \* no anomaly; four recent open ones; four of which one is a day old;
    \* four of which one is resolved
    /\ anomalies \in
          {<<>>,
           [i \in 1..4 |-> PastAnomaly("u1", 0, FALSE)],
           [i \in 1..4 |-> PastAnomaly("u1", IF i = 1 THEN 0 - 24 ELSE 0, FALSE)],
           [i \in 1..4 |-> PastAnomaly("u1", 0, i = 1)]}
    /\ mw_enabled = TRUE
    /\ ret = NoCall

NextRisk ==
    \/ \E u \in {"u1"}, d \in {GenerateDeviceId("Mozilla/5.0", InternalIp, "u1")},
          ip \in {InternalIp, PublicIp},
          a \in {"view", "create_incident", "delete_incident"},
          c \in {NoLocation, Location("Delhi", "India"),
                 Location("Kanpur", "India"), Location("Paris", "France")} :
          CalculateRiskScoreCall(u, d, ip, a, "/api/incidents", c)
    \/ Tick

SpecRisk == InitRisk /\ [][NextRisk]_vars

\* C9: whatever the device state, location, hour, baseline, action, network
\* and anomaly history, calculate_risk_score returns an integer risk_score
\* between 0 and 100.
C9_ScoreInRange ==
    ret.op = "calculate_risk_score" => ret.result.risk_score \in 0..100

\* a call in which the penalties add up to more than 100
C9_Witness ==
    /\ ret.op = "calculate_risk_score"
    /\ ret.result.risk_score = 100
    /\ RiskFactors(devices, ret.user_id, ret.device_id, ret.ip_address,
                   ret.action, ret.context).delta > 100

(***************************************************************************)
(* SpecZT: the session life cycle on a fresh zt.db.                        *)
(***************************************************************************)
\* the session ids a caller may hold: those of stored sessions
KnownSessionIds == {sessions[i].session_id : i \in 1..Len(sessions)}

NextZT ==
    \/ \E ua \in {"Mozilla/5.0"}, info \in {<< <<"os", "Linux">> >>} :
          /\ \A i \in 1..Len(devices) : devices[i].total_sessions < MaxDeviceSessions
          /\ RegisterDeviceCall("u1", ua, InternalIp, info)
    \/ \E d \in {devices[i].device_id : i \in 1..Len(devices)} :
          /\ Len(sessions) < MaxSessions
          /\ CreateSession("u1", "alice", d, InternalIp, Location("Delhi", "India"))
    \/ \E s \in KnownSessionIds \cup {"unknown"},
          c \in {Location("Delhi", "India"), Location("Paris", "France")} :
          /\ Len(access_requests) < MaxAccessRequests \/ ActiveSessionIndex(s) = {}
          /\ VerifyAccess(s, "u1", "delete_incident", "/api/incidents", c)
    \/ \E s \in KnownSessionIds \cup {"unknown"} : TerminateSession(s, "User logout")
    \/ Tick

SpecZT == Init /\ [][NextZT]_vars

\* C6: once a session is inactive it stays inactive, and verify_access on an
\* inactive session answers allowed = false and asks for re-authentication,
\* whatever was called in between.
C6_TerminatedNeverAllowed ==
    [][ /\ \A i \in 1..Len(sessions) :
             ~sessions[i].is_active =>
                /\ i <= Len(sessions')
                /\ sessions'[i].session_id = sessions[i].session_id
                /\ ~sessions'[i].is_active
        /\ \A i \in 1..Len(sessions) :
             (/\ ~sessions[i].is_active
              /\ ret'.op = "verify_access"
              /\ ret' # ret
              /\ ret'.session_id = sessions[i].session_id)
             => /\ ret'.result.allowed = FALSE
                /\ ret'.result = SessionInvalid ]_vars

\* verify_access was called on a session terminated earlier, at a moment
\* when the same call on an active session would have been allowed
C6_Witness ==
    /\ ret.op = "verify_access"
    /\ ret.result = SessionInvalid
    /\ \E i \in 1..Len(sessions) :
          /\ sessions[i].session_id = ret.session_id
          /\ ~sessions[i].is_active
          /\ CalculateRiskScore(ret.user_id, sessions[i].device_id,
                                sessions[i].ip_address, ret.action,
                                "/api/incidents", sessions[i].location).allow_access

(***************************************************************************)
(* zero_trust_middleware.py: ZeroTrustMiddleware.__call__, one request     *)
(* handled from its arrival to the response.                               *)
(***************************************************************************)
public_paths ==
    {<<"/">>, <<"/", "health">>,
     <<"/", "api", "/", "auth", "/", "login">>,
     <<"/", "api", "/", "auth", "/", "register">>,
     <<"/", "docs">>, <<"/", "openapi.json">>}

\* any(request.url.path.startswith(path) for path in public_paths)
IsPublic(path) == \E p \in public_paths : StartsWith(path, p)

Upper(method) == IF method = "delete" THEN "DELETE" ELSE method

MapHttpMethodToAction(method) ==
    CASE Upper(method) = "GET" -> "view"
      [] Upper(method) = "POST" -> "create"
      [] Upper(method) = "PUT" -> "update"
      [] Upper(method) = "PATCH" -> "update"
      [] Upper(method) = "DELETE" -> "delete"
      [] OTHER -> "access"

\* The names bound at module level of zero_trust_middleware.py.  The names
\* imported inside __init__ (zero_trust, audit_logger, AuditEventType) are
\* locals of __init__; only the first two are kept, as attributes of self.
ModuleGlobals ==
    {"Request", "HTTPException", "status", "JSONResponse", "Optional", "Dict",
     "Any", "time", "datetime", "ZeroTrustMiddleware"}

\* request.client.host if request.client else "Unknown"
NoClient == <<>>
ClientHost(client) == IF client = NoClient THEN <<"Unknown">> ELSE client

\* the device_info dict; the language is the first two characters of the
\* accept-language header, "en" for a request that carries none
RequestDeviceInfo(headers) ==
    << <<"os", DictGet(headers, "X-Device-OS", "Unknown")>>,
       <<"browser", DictGet(headers, "X-Device-Browser", "Unknown")>>,
       <<"screen_resolution", DictGet(headers, "X-Device-Screen", "Unknown")>>,
       <<"timezone", DictGet(headers, "X-Device-Timezone", "UTC")>>,
       <<"language", DictGet(headers, "accept-language", "en")>> >>

\* request.state.username, "anonymous" when the attribute is not set
Username(request) == IF request.username = NULL THEN "anonymous" ELSE request.username

\* What the statement self.audit_logger.log_event(event_type=AuditEventType.X, ...)
\* does: the argument AuditEventType.X is evaluated first and raises
\* NameError when the name is not bound; otherwise log_event runs.  Numbers
\* and lists of the metadata are given by their text.
AuditStatement(in, random_part, fail) ==
    IF "AuditEventType" \notin ModuleGlobals
    THEN [raised |-> TRUE, committed |-> FALSE, event_id |-> NULL,
          log |-> audit_log, last |-> last_log_hash, mirror |-> jsonl]
    ELSE LogEventResult(TheLogger, random_part, in, fail)

DeniedEvent(request, ip_address, risk_assessment) ==
    EventInput("ACCESS_DENIED", Username(request),
               "Access denied to " \o Text(request.path), "blocked",
               Text(ip_address), "api", Text(request.path), NULL,
               Dict(<< <<"risk_score", ToString(risk_assessment.risk_score)>>,
                       <<"risk_level", risk_assessment.risk_level>> >>))

SuccessEvent(request, ip_address, action, risk_assessment, device_id) ==
    \* "GET" in action: action is one of view, create, update, delete, access
    EventInput(IF action = "GET" THEN "INCIDENT_VIEWED" ELSE "INCIDENT_CREATED",
               Username(request),
               action \o " " \o Text(request.path), "success",
               Text(ip_address), "api", Text(request.path), NULL,
               Dict(<< <<"risk_score", ToString(risk_assessment.risk_score)>>,
                       <<"device_id", device_id>> >>))

\* What __call__ did with a request: the assessment if one was made (a list
\* of at most one), whether the audit statement ran, raised, stored a row,
\* how often call_next ran, and the response.
MiddlewareReturn(request, assessment, audit_attempted, audit_raised, audit_stored, handler_calls, status_code, blocked) ==
    [op |-> "__call__", path |-> request.path, method |-> request.method,
     user_id |-> request.user_id, assessment |-> assessment,
     audit_attempted |-> audit_attempted, audit_raised |-> audit_raised,
     audit_stored |-> audit_stored, handler_calls |-> handler_calls,
     status_code |-> status_code, blocked |-> blocked]

\* the request goes to call_next and its response is returned
Forward(request, assessment, status_code) ==
    /\ UNCHANGED <<audit_log, last_log_hash, jsonl>>
    /\ ret' = MiddlewareReturn(request, assessment, FALSE, FALSE, FALSE, 1,
                               status_code, FALSE)

\* lines 110-140: risk_score >= 70
Block(request, risk_assessment, audit, status1) ==
    /\ audit_log' = audit.log
    /\ last_log_hash' = audit.last
    /\ jsonl' = audit.mirror
    /\ IF audit.raised
       THEN \* except Exception: return await call_next(request)
            ret' = MiddlewareReturn(request, <<risk_assessment>>, TRUE, TRUE,
                                    audit.committed, 1, status1, FALSE)
       ELSE ret' = MiddlewareReturn(request, <<risk_assessment>>, TRUE, FALSE,
                                    audit.committed, 0, 403, TRUE)

\* lines 153-178: the handler ran and answered below 400
LogSuccess(request, risk_assessment, audit, status1, status2) ==
    /\ audit_log' = audit.log
    /\ last_log_hash' = audit.last
    /\ jsonl' = audit.mirror
    /\ IF audit.raised
       THEN \* except Exception: return await call_next(request)
            ret' = MiddlewareReturn(request, <<risk_assessment>>, TRUE, TRUE,
                                    audit.committed, 2, status2, FALSE)
       ELSE ret' = MiddlewareReturn(request, <<risk_assessment>>, TRUE, FALSE,
                                    audit.committed, 1, status1, FALSE)

\* lines 79-178, the device registered and the request scored
Scored(request, ip_address, device_id, action, risk_assessment, status1, status2, random_part, fail) ==
    IF risk_assessment.risk_score >= 70
    THEN Block(request, risk_assessment,
               AuditStatement(DeniedEvent(request, ip_address, risk_assessment),
                              random_part, fail),
               status1)
    ELSE IF status1 < 400
    THEN LogSuccess(request, risk_assessment,
                    AuditStatement(SuccessEvent(request, ip_address, action,
                                                risk_assessment, device_id),
                                   random_part, fail),
                    status1, status2)
    ELSE Forward(request, <<risk_assessment>>, status1)

Registered(request, ip_address, action, reg, status1, status2, random_part, fail) ==
    /\ devices' = reg.devices
    /\ Scored(request, ip_address, reg.fingerprint.device_id, action,
              CalculateRiskScoreOn(reg.devices, request.user_id,
                                   reg.fingerprint.device_id, ip_address, action,
                                   Text(request.path), Location("Unknown", "India")),
              status1, status2, random_part, fail)

\* ZeroTrustMiddleware.__call__(request, call_next); status1 and status2 are
\* the answers of the first and of a second call_next(request)
Call(request, status1, status2, random_part, fail) ==
    /\ IF \/ ~mw_enabled
          \/ IsPublic(request.path)
          \/ request.user_id \in {NULL, ""}
       THEN /\ UNCHANGED devices
            /\ Forward(request, <<>>, status1)
       ELSE Registered(request, ClientHost(request.client),
                       MapHttpMethodToAction(request.method),
                       RegisterDevice(request.user_id,
                                      DictGet(request.headers, "user-agent", "Unknown"),
                                      ClientHost(request.client),
                                      RequestDeviceInfo(request.headers)),
                       status1, status2, random_part, fail)
    /\ UNCHANGED <<now, failed_logins, concVars, sessions, access_requests,
                   behavior_baseline, anomalies, mw_enabled, tampered>>

(***************************************************************************)
(* SpecMW: requests through the middleware.  A request in origin form has  *)
(* a path that starts with "/"; a request in asterisk form, or a scope    *)
(* built by hand, has one that does not.                                   *)
(***************************************************************************)
Statuses == {200, 404}

Requests ==
    [path : {<<>>, <<"/", "api", "/", "incidents">>, <<"/", "health">>},
     method : {"GET", "delete"}, user_id : {NULL, "u1"}, username : {"alice"},
     headers : {<< <<"user-agent", "Mozilla/5.0">> >>},
     client : {NoClient, PublicIp}]

InitMW ==
    /\ now = 0
    /\ AuditInit
    /\ devices = <<>>
    /\ sessions = <<>>
    /\ access_requests = <<>>
    /\ behavior_baseline \in {<<>>, <<Baseline("u1", <<6, 7>>, <<"Delhi">>)>>}
    /\ anomalies \in {<<>>, [i \in 1..4 |-> PastAnomaly("u1", 0, FALSE)]}
    /\ mw_enabled \in BOOLEAN
    /\ ret = NoCall

NextMW ==
    \/ \E request \in Requests, status1 \in Statuses, status2 \in Statuses,
          rp \in RandomParts, fail \in {"none", "insert"} :
          /\ \A i \in 1..Len(devices) : devices[i].total_sessions < MaxDeviceSessions
          /\ Call(request, status1, status2, rp, fail)
    \/ Tick

SpecMW == InitMW /\ [][NextMW]_vars

\* C7: a request during which the audit write failed is denied: it is not
\* forwarded to the handler and not answered as allowed.
C7_AuditFailureDenies ==
    (ret.op = "__call__" /\ ret.audit_raised)
        => (ret.blocked /\ ret.handler_calls = 0)

\* C10: the envelope of every assessment has allow_access iff score < 70,
\* requires_mfa iff score > 60, requires_approval iff score > 80, and the
\* middleware answers 403 exactly when allow_access is false.
C10_EnvelopeAndBlock ==
    (ret.op = "__call__" /\ ret.assessment # <<>>)
        => /\ ret.assessment[1].allow_access <=> ret.assessment[1].risk_score < 70
           /\ ret.assessment[1].requires_mfa <=> ret.assessment[1].risk_score > 60
           /\ ret.assessment[1].requires_approval <=> ret.assessment[1].risk_score > 80
           /\ ret.blocked <=> ~ret.assessment[1].allow_access
           /\ ret.blocked <=> ret.status_code = 403

\* The envelope alone, as calculate_risk_score returns it.
EnvelopeThresholds ==
    ret.op = "calculate_risk_score"
        => /\ ret.result.allow_access <=> ret.result.risk_score < 70
           /\ ret.result.requires_mfa <=> ret.result.risk_score > 60
           /\ ret.result.requires_approval <=> ret.result.risk_score > 80
           /\ ret.result.requires_approval => ret.result.requires_mfa
           /\ ret.result.requires_approval => ~ret.result.allow_access

(***************************************************************************)
(* SpecAccess: one device seen from a public address, one session on it,   *)
(* and access requests of low and high risk from a trusted and from a      *)
(* foreign place, so that verify_access both allows and denies.            *)
(***************************************************************************)
NextAccess ==
    \/ /\ Len(devices) = 0
       /\ RegisterDeviceCall("u1", "Mozilla/5.0", PublicIp, << <<"os", "Linux">> >>)
    \/ \E d \in {devices[i].device_id : i \in 1..Len(devices)} :
          /\ Len(sessions) = 0
          /\ CreateSession("u1", "alice", d, PublicIp, Location("Paris", "France"))
    \/ \E s \in KnownSessionIds, u \in {"u1", "u2"},
          a \in {"view", "delete_incident"},
          c \in {Location("Delhi", "India"), Location("Paris", "France")} :
          /\ Len(access_requests) < MaxDecisions
          /\ VerifyAccess(s, u, a, "/api/incidents", c)
    \/ \E s \in KnownSessionIds : TerminateSession(s, "User logout")
    \/ Tick

SpecAccess == Init /\ [][NextAccess]_vars

\* C11: a verify_access call on an active session appends exactly one
\* access_requests row, allowed or denied; the row's decision is ALLOW iff
\* the returned allowed is true, its risk_score is the returned risk_score,
\* and the session's stored risk_score is the returned one after the call.
C11_OneRecordPerDecision ==
    [][ \A i \in 1..Len(sessions) :
          (/\ sessions[i].is_active
           /\ ret'.op = "verify_access"
           /\ ret'.session_id = sessions[i].session_id
           /\ ret' # ret \/ access_requests' # access_requests)
          => /\ Len(access_requests') = Len(access_requests) + 1
             /\ SubSeq(access_requests', 1, Len(access_requests)) = access_requests
             /\ \E row \in {access_requests'[Len(access_requests')]} :
                   /\ row.session_id = ret'.session_id
                   /\ row.decision \in {"ALLOW", "DENY"}
                   /\ row.decision = "ALLOW" <=> ret'.result.allowed
                   /\ row.risk_score = ret'.result.risk_score
             /\ sessions'[i].risk_score = ret'.result.risk_score ]_vars

\* a denied request on an active session has been recorded and answered
C11_Witness ==
    /\ ret.op = "verify_access"
    /\ ~ret.result.allowed
    /\ ret.result # SessionInvalid
    /\ access_requests # <<>>
    /\ access_requests[Len(access_requests)].decision = "DENY"
    /\ access_requests[Len(access_requests)].risk_score = ret.result.risk_score
    /\ \E i \in 1..Len(sessions) :
          /\ sessions[i].session_id = ret.session_id
          /\ sessions[i].risk_score = ret.result.risk_score

\* C16: a verify_access call that answers DENY leaves is_active and
\* terminated_reason of every session as they were, so the session stays
\* active and a later request of lower risk on it can be allowed.
C16_DenyKeepsSessionActive ==
    [][ (/\ ret'.op = "verify_access"
         /\ ~ret'.result.allowed
         /\ ret' # ret \/ access_requests' # access_requests)
        => /\ Len(sessions') = Len(sessions)
           /\ \A i \in 1..Len(sessions) :
                 /\ sessions'[i].session_id = sessions[i].session_id
                 /\ sessions'[i].is_active = sessions[i].is_active
                 /\ sessions'[i].terminated_reason = sessions[i].terminated_reason ]_vars

\* a request was allowed on a session on which an earlier request was denied
C16_Witness ==
    /\ ret.op = "verify_access"
    /\ ret.result.allowed
    /\ Len(access_requests) >= 2
    /\ access_requests[Len(access_requests)].decision = "ALLOW"
    /\ access_requests[Len(access_requests)].session_id = ret.session_id
    /\ \E k \in 1..(Len(access_requests) - 1) :
          /\ access_requests[k].decision = "DENY"
          /\ access_requests[k].session_id = ret.session_id
    /\ \E i \in 1..Len(sessions) :
          /\ sessions[i].session_id = ret.session_id
          /\ sessions[i].is_active
          /\ sessions[i].terminated_reason = NULL

\* C12: every create_session call adds one login entry (success or
\* failure) to the audit log.
C12_LoginAudited ==
    [][ (/\ ret'.op = "create_session"
         /\ ret' # ret \/ sessions' # sessions)
        => /\ Len(audit_log') = Len(audit_log) + 1
           /\ audit_log'[Len(audit_log')].event_type
                 \in {"LOGIN_SUCCESS", "LOGIN_FAILED"} ]_vars

\* C13: when the middleware has taken an access decision for an
\* authenticated request, allowed or denied and whatever the handler
\* answered, an audit entry written by log_event is stored by the time the
\* response is returned.
C13_DecisionAudited ==
    (ret.op = "__call__" /\ ret.assessment # <<>>)
        => /\ ret.audit_attempted
           /\ ret.audit_stored
           /\ audit_log # <<>>

\* C18: verify_access answers allowed = false for a session older than the
\* configured maximum age, whatever that maximum is, although the session
\* was never terminated.
C18_ExpiredSessionDenied ==
    [][ \A i \in 1..Len(sessions), max_age \in 0..MaxTime :
          (/\ ret'.op = "verify_access"
           /\ ret' # ret \/ access_requests' # access_requests
           /\ ret'.session_id = sessions[i].session_id
           /\ now - sessions[i].started_at > max_age)
          => ~ret'.result.allowed ]_vars

\* C19: when the row is committed and only the JSONL append fails,
\* log_event returns the event id and raises nothing.
C19_MirrorFailureNonFatal ==
    (ret.op = "log_event" /\ ret.failure = "mirror" /\ ret.committed)
        => (~ret.raised /\ ret.event_id # NULL)

\* C15: terminate_session is idempotent.  A call naming an unknown session,
\* or one already terminated for the same reason, changes nothing; any call
\* makes the named session inactive and leaves every other session and
\* every other table as it was.
C15_TerminateIdempotent ==
    [][ (ret'.op = "terminate_session" /\ now' = now)
        => /\ Len(sessions') = Len(sessions)
           /\ \A i \in 1..Len(sessions) :
                 IF sessions[i].session_id = ret'.session_id
                 THEN /\ ~sessions'[i].is_active
                      /\ sessions'[i] = [sessions[i] EXCEPT
                                            !.is_active = FALSE,
                                            !.terminated_reason = "User logout"]
                      /\ (/\ ~sessions[i].is_active
                          /\ sessions[i].terminated_reason = "User logout")
                         => sessions'[i] = sessions[i]
                 ELSE sessions'[i] = sessions[i]
           /\ (\A i \in 1..Len(sessions) :
                  sessions[i].session_id = ret'.session_id => ~sessions[i].is_active)
              => sessions' = sessions
           /\ UNCHANGED <<devices, access_requests, anomalies, behavior_baseline,
                          auditVars>> ]_vars

\* terminate_session has ended one session while another one is active
C15_Witness ==
    /\ ret.op = "terminate_session"
    /\ \E i, j \in 1..Len(sessions) :
          /\ sessions[i].session_id = ret.session_id
          /\ ~sessions[i].is_active
          /\ sessions[i].terminated_reason = "User logout"
          /\ sessions[j].session_id # ret.session_id
          /\ sessions[j].is_active
          /\ sessions[j].terminated_reason = NULL

(***************************************************************************)
(* SpecVerify: verify_access called by concurrent worker threads on one    *)
(* session.  Each call has its own connection to zt.db.  The INSERT opens  *)
(* a write transaction and takes the database's write lock (a second       *)
(* writer waits in SQLite's busy handler); the rows written become visible *)
(* to the other connections at commit, which releases the lock.            *)
(***************************************************************************)
VerifyAccessStep(w, session_id, action, context) ==
    \* lines 514-529: timestamp, the session lookup, the early return
    \/ /\ workers[w].pc = "idle"
       /\ Len(access_requests) + Cardinality(Active) < MaxWorkerCalls
       /\ IF ActiveSessionIndex(session_id) = {}
          THEN /\ ret' = [op |-> "verify_access", session_id |-> session_id,
                          user_id |-> "u1", action |-> action,
                          result |-> SessionInvalid]
               /\ UNCHANGED workers
          ELSE /\ \E i \in {CHOOSE j \in ActiveSessionIndex(session_id) : TRUE} :
                    workers' = [workers EXCEPT ![w] =
                        [pc |-> "selected", session_id |-> session_id,
                         action |-> action, context |-> context,
                         timestamp |-> now,
                         device_id |-> sessions[i].device_id,
                         ip_address |-> sessions[i].ip_address]]
               /\ UNCHANGED ret
       /\ UNCHANGED <<db_lock, sessions, access_requests>>
    \* lines 531-541: calculate_risk_score on a connection of its own
    \/ /\ workers[w].pc = "selected"
       /\ workers' = [workers EXCEPT ![w] =
              [pc |-> "scored", session_id |-> workers[w].session_id,
               action |-> workers[w].action, timestamp |-> workers[w].timestamp,
               risk_assessment |->
                   CalculateRiskScore("u1", workers[w].device_id,
                                      workers[w].ip_address, workers[w].action,
                                      "/api/incidents", workers[w].context)]]
       /\ UNCHANGED <<db_lock, sessions, access_requests, ret>>
    \* lines 543-559: the INSERT starts the write transaction
    \/ /\ workers[w].pc = "scored"
       /\ db_lock = NULL
       /\ db_lock' = w
       /\ workers' = [workers EXCEPT ![w].pc = "inserted"]
       /\ UNCHANGED <<sessions, access_requests, ret>>
    \* lines 561-579: the UPDATE, the commit, the answer
    \/ /\ workers[w].pc = "inserted"
       /\ db_lock = w
       /\ access_requests' = Append(access_requests,
              [AccessRequestRow(workers[w].session_id, "u1", workers[w].action,
                                "/api/incidents", workers[w].risk_assessment)
               EXCEPT !.timestamp = workers[w].timestamp])
       /\ sessions' = UpdateSessionRisk(sessions, workers[w].session_id,
                                        workers[w].timestamp,
                                        workers[w].risk_assessment.risk_score)
       /\ db_lock' = NULL
       /\ workers' = [workers EXCEPT ![w] = Idle]
       /\ ret' = [op |-> "verify_access", session_id |-> workers[w].session_id,
                  user_id |-> "u1", action |-> workers[w].action,
                  result |-> AccessDecision(workers[w].risk_assessment)]

NextVerify ==
    \/ /\ Len(devices) = 0
       /\ RegisterDeviceCall("u1", "Mozilla/5.0", PublicIp, << <<"os", "Linux">> >>)
    \/ \E d \in {devices[i].device_id : i \in 1..Len(devices)} :
          /\ Len(sessions) = 0
          /\ CreateSession("u1", "alice", d, PublicIp, Location("Paris", "France"))
    \/ \E w \in Workers, s \in KnownSessionIds \cup {"unknown"},
          a \in {"view", "delete_incident"} :
          /\ VerifyAccessStep(w, s, a, Location("Paris", "France"))
          /\ UNCHANGED <<now, auditVars, devices, behavior_baseline, anomalies,
                         mw_enabled, tampered>>
    \/ Tick

SpecVerify == Init /\ [][NextVerify]_vars

\* C14: with the steps of concurrent verify_access calls on one active
\* session interleaved in any order no write is lost: every call that has
\* finished added one access_requests row, and the session's risk_score and
\* last_activity are the pair written by one call, the last to commit.
C14_NoLostWrite ==
    [][ /\ (Cardinality(Active) > Cardinality({w \in Workers : workers'[w].pc # "idle"}))
           => /\ Len(access_requests') = Len(access_requests) + 1
              /\ SubSeq(access_requests', 1, Len(access_requests)) = access_requests
        /\ (Cardinality(Active) <= Cardinality({w \in Workers : workers'[w].pc # "idle"}))
           => access_requests' = access_requests
        /\ \A i \in 1..Len(sessions') :
              \A k \in 1..Len(access_requests') :
                 (/\ access_requests'[k].session_id = sessions'[i].session_id
                  /\ \A j \in (k + 1)..Len(access_requests') :
                        access_requests'[j].session_id # sessions'[i].session_id)
                 => /\ sessions'[i].risk_score = access_requests'[k].risk_score
                    /\ sessions'[i].last_activity = access_requests'[k].timestamp ]_vars

\* two calls ran interleaved on one session, started at different times and
\* scored differently, and the call that started first committed last
C14_Witness ==
    /\ Len(access_requests) = 2
    /\ \A w \in Workers : workers[w].pc = "idle"
    /\ access_requests[1].session_id = access_requests[2].session_id
    /\ access_requests[2].timestamp < access_requests[1].timestamp
    /\ access_requests[1].risk_score # access_requests[2].risk_score
    /\ \E i \in 1..Len(sessions) :
          /\ sessions[i].session_id = access_requests[2].session_id
          /\ sessions[i].is_active
          /\ sessions[i].risk_score = access_requests[2].risk_score
          /\ sessions[i].last_activity = access_requests[2].timestamp

(***************************************************************************)
(* SpecDevices: register_device called with several combinations of user,  *)
(* browser and address.  The user id and the user agent are strings the    *)
(* caller supplies (the form fields of /api/zero-trust/test-device, the    *)
(* User-Agent header), so either may hold the character "|".               *)
(***************************************************************************)
NextDevices ==
    \/ \E c \in {<<"u1", "Mozilla/5.0", InternalIp>>,
                  <<"u1", "Mozilla/5.0", PublicIp>>,
                  <<"10.0.0.5|u1", "Mozilla/5.0", InternalIp>>,
                  <<"u1", "Mozilla/5.0|10.0.0.5", InternalIp>>} :
          /\ \A i \in 1..Len(devices) : devices[i].total_sessions < MaxDeviceSessions
          /\ RegisterDeviceCall(c[1], c[2], c[3], << <<"os", "Linux">> >>)
    \/ Tick

SpecDevices == Init /\ [][NextDevices]_vars

\* the rows of the devices table stored for one (user_id, user_agent, ip)
Registered3(user_id, user_agent, ip_address) ==
    {i \in 1..Len(devices) : /\ devices[i].user_id = user_id
                             /\ devices[i].user_agent = user_agent
                             /\ devices[i].ip_address = ip_address}

\* C17: register_device is idempotent on identity.  A call with a
\* (user_id, user_agent, ip) that is already stored returns the stored
\* device_id and adds one to that record's total_sessions, leaving its
\* trust_score and first_seen and the number of records as they were; a call
\* with a combination that is not stored appends a record with trust_score
\* 50, is_trusted false; every other record is unchanged in both cases.
C17_RegisterIdempotent ==
    [][ (ret'.op = "register_device" /\ devices' # devices)
        => \E known \in {Registered3(ret'.user_id, ret'.fingerprint.user_agent,
                                      ret'.fingerprint.ip_address)} :
              IF known # {}
              THEN /\ Cardinality(known) = 1
                   /\ Len(devices') = Len(devices)
                   /\ \A i \in 1..Len(devices) :
                         IF i \in known
                         THEN /\ devices'[i].device_id = ret'.fingerprint.device_id
                              /\ devices'[i].device_id = devices[i].device_id
                              /\ devices'[i].total_sessions = devices[i].total_sessions + 1
                              /\ devices'[i].trust_score = devices[i].trust_score
                              /\ devices'[i].first_seen = devices[i].first_seen
                         ELSE devices'[i] = devices[i]
              ELSE /\ Len(devices') = Len(devices) + 1
                   /\ SubSeq(devices', 1, Len(devices)) = devices
                   /\ devices'[Len(devices')].device_id = ret'.fingerprint.device_id
                   /\ devices'[Len(devices')].user_id = ret'.user_id
                   /\ devices'[Len(devices')].trust_score = 50
                   /\ devices'[Len(devices')].is_trusted = FALSE
                   /\ devices'[Len(devices')].total_sessions = 1 ]_vars

\* The first half of C17 alone: a call with a stored combination updates
\* that one record and no other.
StoredCombinationIdempotent ==
    [][ (ret'.op = "register_device" /\ devices' # devices)
        => \E known \in {Registered3(ret'.user_id, ret'.fingerprint.user_agent,
                                      ret'.fingerprint.ip_address)} :
              known # {}
              => /\ Cardinality(known) = 1
                 /\ Len(devices') = Len(devices)
                 /\ \A i \in 1..Len(devices) :
                       IF i \in known
                       THEN /\ devices'[i].device_id = ret'.fingerprint.device_id
                            /\ devices'[i].total_sessions = devices[i].total_sessions + 1
                            /\ devices'[i].trust_score = devices[i].trust_score
                            /\ devices'[i].first_seen = devices[i].first_seen
                       ELSE devices'[i] = devices[i] ]_vars

(***************************************************************************)
(* SpecScenario: calculate_risk_score at 21:00 and 22:00 UTC (02:00 and    *)
(* 03:00 by the engine's IST clock) for a delete_incident request from a   *)
(* foreign country, on a device that was never registered or has just     *)
(* been registered, from a trusted and from a public network, for a user   *)
(* with and without a behaviour baseline and recent anomalies.             *)
(***************************************************************************)
InitScenario ==
    /\ now \in {21, 22}
    /\ AuditInit
    /\ devices = <<>>
    /\ sessions = <<>>
    /\ access_requests = <<>>
    /\ behavior_baseline \in {<<>>, <<Baseline("u1", <<6, 7>>, <<"Delhi">>)>>,
                              <<Baseline("u1", <<2, 3>>, <<"Paris">>)>>}
    /\ anomalies \in {<<>>, [i \in 1..4 |-> PastAnomaly("u1", 20, FALSE)]}
    /\ mw_enabled = TRUE
    /\ ret = NoCall

NextScenario ==
    \/ \E ip \in {InternalIp, PublicIp} :
          /\ Len(devices) = 0
          /\ RegisterDeviceCall("u1", "Mozilla/5.0", ip, << <<"os", "Linux">> >>)
    \/ \E d \in {devices[i].device_id : i \in 1..Len(devices)} \cup {"unregistered"},
          ip \in {InternalIp, PublicIp},
          c \in {Location("Paris", "France"), Location("Unknown", "Nepal")} :
          CalculateRiskScoreCall("u1", d, ip, "delete_incident", "/api/incidents", c)

SpecScenario == InitScenario /\ [][NextScenario]_vars

\* C20 as stated: in Scenario 1 (new device, never registered or just
\* registered; foreign country; 03:00 local time; delete_incident; any
\* network) the score is at least 80, the level CRITICAL and approval is
\* required.
C20_ScenarioCritical ==
    (/\ ret.op = "calculate_risk_score"
     /\ ret.action = "delete_incident"
     /\ Country(ret.context) # "India"
     /\ IstHour(now) \in {2, 3})
    => /\ ret.result.risk_score >= 80
       /\ ret.result.risk_level = "CRITICAL"
       /\ ret.result.requires_approval

\* C20, amended: in Scenario 1 the score is at least 60 from any network,
\* at least 80 when the device was never registered or the network is not a
\* trusted one, and with both it is at least 80 with level CRITICAL and
\* approval required.
C20_ScenarioByDeviceAndNetwork ==
    (/\ ret.op = "calculate_risk_score"
     /\ ret.action = "delete_incident"
     /\ Country(ret.context) # "India"
     /\ IstHour(now) \in {2, 3})
    => /\ ret.result.risk_score >= 60
       /\ (\/ \A i \in 1..Len(devices) : devices[i].device_id # ret.device_id
           \/ ~CheckTrustedNetwork(ret.ip_address))
          => ret.result.risk_score >= 80
       /\ (/\ \A i \in 1..Len(devices) : devices[i].device_id # ret.device_id
           /\ ~CheckTrustedNetwork(ret.ip_address))
          => /\ ret.result.risk_score >= 80
             /\ ret.result.risk_level = "CRITICAL"
             /\ ret.result.requires_approval

\* Scenario 1 on a device never registered, from a public address, for a
\* user without baseline or anomalies: the score is critical
C20_Witness ==
    /\ ret.op = "calculate_risk_score"
    /\ ret.action = "delete_incident"
    /\ Country(ret.context) = "France"
    /\ IstHour(now) = 3
    /\ ret.device_id = "unregistered"
    /\ ret.ip_address = PublicIp
    /\ behavior_baseline = <<>>
    /\ anomalies = <<>>
    /\ ret.result.risk_score = 100
    /\ ret.result.risk_level = "CRITICAL"
    /\ ret.result.requires_approval

\* a calculate_risk_score call returns for Scenario 2: a device with
\* trust_score 90 marked trusted, an internal address, an hour inside the
\* normal window, action "view"
Scenario2Returns ==
    /\ ret'.op = "calculate_risk_score"
    /\ ret' # ret
    /\ ret'.action = "view"
    /\ CheckTrustedNetwork(ret'.ip_address)
    /\ IstHour(now) \in 6..22
    /\ \E i \in 1..Len(devices) :
          /\ devices[i].device_id = ret'.device_id
          /\ devices[i].trust_score = 90
          /\ devices[i].is_trusted

\* C21 as stated: in Scenario 2 (device with trust_score 90 marked trusted,
\* internal network, an hour inside the normal window, action "view") the
\* score is at most 20, the level TRUSTED and access is allowed, whatever
\* the session count, the place, the baseline and the anomaly history.
C21_ScenarioTrusted ==
    [][ Scenario2Returns
        => /\ ret'.result.risk_score <= 20
           /\ ret'.result.risk_level = "TRUSTED"
           /\ ret'.result.allow_access ]_vars

\* C21, amended: in Scenario 2 the score is at most 45 and access is
\* allowed for every value of the open inputs; the score is at most 20 and
\* the level TRUSTED when the country is India and neither the hour nor the
\* city deviates from the user's behaviour baseline.
C21_ScenarioByPlaceAndBaseline ==
    [][ Scenario2Returns
        => /\ ret'.result.risk_score <= 45
           /\ ret'.result.allow_access
           /\ (/\ Country(ret'.context) = "India"
               /\ BehaviorFactor(ret'.user_id, IstHour(now),
                                 City(ret'.context)).delta = 0)
              => /\ ret'.result.risk_score <= 20
                 /\ ret'.result.risk_level = "TRUSTED" ]_vars

\* Scenario 2 from a trusted city with the baseline matched: the level is
\* TRUSTED although the device is new and the user has open anomalies
C21_Witness ==
    /\ ret.op = "calculate_risk_score"
    /\ ret.action = "view"
    /\ ret.ip_address = InternalIp
    /\ IstHour(now) = 6
    /\ ret.context = Location("Delhi", "India")
    /\ devices # <<>>
    /\ devices[1].device_id = ret.device_id
    /\ devices[1].trust_score = 90
    /\ devices[1].is_trusted
    /\ devices[1].total_sessions = 2
    /\ behavior_baseline = <<Baseline("u1", <<6, 7>>, <<"Delhi">>)>>
    /\ RecentAnomalies("u1") > 3
    /\ ret.result.risk_score = 0
    /\ ret.result.risk_level = "TRUSTED"
    /\ ret.result.allow_access

\* C22: for a request the middleware has scored, the action derived from
\* the HTTP method gets the action-sensitivity delta of the factor table:
\* 20 for DELETE, 10 for POST, PUT and PATCH, 0 for GET.
C22_MethodSensitivity ==
    (ret.op = "__call__" /\ ret.assessment # <<>>)
        => ActionFactor(MapHttpMethodToAction(ret.method)).delta =
              (CASE Upper(ret.method) = "DELETE" -> 20
                 [] Upper(ret.method) \in {"POST", "PUT", "PATCH"} -> 10
                 [] OTHER -> 0)

\* C23: the anomalies of an assessment are stored by the caller of the
\* scoring engine: a create_session or verify_access call whose assessment
\* holds k anomalies adds k unresolved rows for that user and session to the
\* anomalies table.
C23_AnomaliesPersisted ==
    [][ /\ (/\ ret'.op = "create_session"
            /\ sessions' # sessions)
           => /\ Len(anomalies') =
                    Len(anomalies) + Len(ret'.session.anomalies_detected)
              /\ \A k \in (Len(anomalies) + 1)..Len(anomalies') :
                    /\ anomalies'[k].user_id = ret'.session.user_id
                    /\ anomalies'[k].session_id = ret'.session_id
                    /\ ~anomalies'[k].resolved
        /\ (/\ ret'.op = "verify_access"
            /\ access_requests' # access_requests)
           => /\ Len(anomalies') =
                    Len(anomalies) + Len(ret'.result.anomalies)
              /\ \A k \in (Len(anomalies) + 1)..Len(anomalies') :
                    /\ anomalies'[k].user_id = ret'.user_id
                    /\ anomalies'[k].session_id = ret'.session_id
                    /\ ~anomalies'[k].resolved ]_vars

\* The half of C23 that is about create_session alone.
CreateSessionPersistsAnomalies ==
    [][ (ret'.op = "create_session" /\ sessions' # sessions)
        => /\ Len(anomalies') =
                 Len(anomalies) + Len(ret'.session.anomalies_detected)
           /\ Len(ret'.session.anomalies_detected) > 0
           /\ \A k \in (Len(anomalies) + 1)..Len(anomalies') :
                 /\ anomalies'[k].user_id = ret'.session.user_id
                 /\ anomalies'[k].session_id = ret'.session_id
                 /\ ~anomalies'[k].resolved ]_vars

(***************************************************************************)
(* SpecStore: every operation of the audit logger and of the zero-trust    *)
(* framework on their two stores, one logger instance, calls made one      *)
(* after another.                                                          *)
(***************************************************************************)
\* search_logs(event_type, actor, resource_type, status); an absent filter
\* is None.  ORDER BY timestamp DESC does not order rows of one timestamp,
\* so the result is kept as the set of the rows selected.
SearchLogs(event_type, actor, resource_type, status) ==
    /\ ret' = [op |-> "search_logs",
               results |-> {audit_log[i] : i \in
                   {j \in 1..Len(audit_log) :
                      /\ (event_type \notin {NULL, ""} => audit_log[j].event_type = event_type)
                      /\ (actor \notin {NULL, ""} => audit_log[j].actor = actor)
                      /\ (resource_type \notin {NULL, ""} =>
                             audit_log[j].resource_type = resource_type)
                      /\ (status \notin {NULL, ""} => audit_log[j].status = status)}}]
    /\ UNCHANGED <<now, auditVars, concVars, ztVars, mw_enabled, tampered>>

\* get_failed_login_attempts(username, ip_address, hours)
GetFailedLoginAttempts(username, ip_address, hours) ==
    /\ ret' = [op |-> "get_failed_login_attempts",
               results |-> {failed_logins[i] : i \in
                   {j \in 1..Len(failed_logins) :
                      /\ \E at \in 0..now :
                            /\ failed_logins[j].timestamp = IsoFormat(at)
                            /\ at > now - hours
                      /\ (username \notin {NULL, ""} => failed_logins[j].username = username)
                      /\ (ip_address \notin {NULL, ""} =>
                             failed_logins[j].ip_address = ip_address)}}]
    /\ UNCHANGED <<now, auditVars, concVars, ztVars, mw_enabled, tampered>>

NextStore ==
    \/ \E fail \in {"none", "insert"} :
          LogEvent(TheLogger, "0A1B2C3D",
                   EventInput("LOGIN_SUCCESS", "alice", "login", "success",
                              "10.0.0.5", NULL, NULL, NULL, NoDict),
                   fail)
    \/ \E fail \in {"none", "insert"} :
          /\ Len(failed_logins) < MaxFailedLogins
          /\ LogFailedLogin(TheLogger, "0A1B2C3D", "alice", "203.0.113.9",
                            "Invalid credentials", NULL, fail)
    \/ \E e \in KnownEventIds \cup {NULL} : VerifyLogIntegrityCall(e)
    \/ \E a \in {NULL, "alice"} : SearchLogs(NULL, a, NULL, "success")
    \/ \E h \in {1, 24} : GetFailedLoginAttempts("alice", NULL, h)
    \/ /\ Len(devices) = 0
       /\ RegisterDeviceCall("u1", "Mozilla/5.0", InternalIp, << <<"os", "Linux">> >>)
    \/ \E d \in {devices[i].device_id : i \in 1..Len(devices)} :
          /\ Len(sessions) = 0
          /\ CreateSession("u1", "alice", d, InternalIp, Location("Delhi", "India"))
    \/ \E s \in KnownSessionIds :
          /\ Len(access_requests) < MaxAccessRequests
          /\ VerifyAccess(s, "u1", "view", "/api/incidents", Location("Delhi", "India"))
    \/ \E s \in KnownSessionIds : TerminateSession(s, "User logout")
    \/ Tick

SpecStore == Init /\ [][NextStore]_vars

\* C24: the audit log is append-only and the zero-trust framework deletes
\* nothing: whatever operation runs, the audit entries stored before it are
\* a prefix of those stored after it, and every device and session record
\* is still there, at its place and under its id.
C24_AppendOnly ==
    [][ /\ Len(audit_log') >= Len(audit_log)
        /\ SubSeq(audit_log', 1, Len(audit_log)) = audit_log
        /\ Len(devices') >= Len(devices)
        /\ \A i \in 1..Len(devices) : devices'[i].device_id = devices[i].device_id
        /\ Len(sessions') >= Len(sessions)
        /\ \A i \in 1..Len(sessions) :
              sessions'[i].session_id = sessions[i].session_id ]_vars

\* every operation has run on stores that hold entries: the log has two
\* entries, one of them of a failed login, a device and a terminated
\* session are stored, and the last call was a search that found an entry
C24_Witness ==
    /\ Len(audit_log) >= 2
    /\ Len(failed_logins) >= 1
    /\ Len(devices) >= 1
    /\ Len(access_requests) >= 1
    /\ \E i \in 1..Len(sessions) : ~sessions[i].is_active
    /\ ret.op = "search_logs"
    /\ ret.results # {}

\* C25: with two logger instances on one store appending alternately, each
\* call run to completion, every new entry's previous_hash is the
\* current_hash of the entry stored immediately before it (the genesis hash
\* for the first), and the appending instance's cached last hash is the
\* tail of the store at that moment.
C25_InstancesShareTail ==
    [][ (Len(audit_log') = Len(audit_log) + 1 /\ ret'.op = "log_event")
        => /\ audit_log'[Len(audit_log')].previous_hash =
                 GetLastLogHash(audit_log)
           /\ last_log_hash[ret'.logger] = GetLastLogHash(audit_log) ]_vars

\* C26: on an untouched log of at least two entries,
\* verify_log_integrity(event_id) answers valid = true with no violation
\* for every stored entry, the first or a later one, and valid = false for
\* an event_id that is not in the log.
C26_SingleEntryVerifies ==
    (/\ ret.op = "verify_log_integrity"
     /\ ret.event_id \notin {NULL, ""}
     /\ Len(audit_log) >= 2
     /\ tampered = NoTamper)
    => IF ret.event_id \in KnownEventIds
       THEN /\ ret.result.valid
            /\ ret.result.tampering_detected = <<>>
       ELSE ~ret.result.valid

\* C27: a verify_access call whose user_id is not the one stored for the
\* session is refused, records no access request and leaves the session's
\* risk_score and last_activity as they were.
C27_OwnerOnly ==
    [][ \A i \in 1..Len(sessions) :
          (/\ ret'.op = "verify_access"
           /\ ret' # ret \/ access_requests' # access_requests
           /\ ret'.session_id = sessions[i].session_id
           /\ ret'.user_id # sessions[i].user_id)
          => /\ ~ret'.result.allowed
             /\ access_requests' = access_requests
             /\ sessions'[i].risk_score = sessions[i].risk_score
             /\ sessions'[i].last_activity = sessions[i].last_activity ]_vars

\* C28: with the middleware enabled, a request that carries a user_id and
\* whose path is none of the public endpoints (the root, health, login,
\* register, docs, openapi) has been scored by the time it is answered, and
\* has reached the handler only with a score below 70.
C28_EveryRequestScored ==
    (/\ ret.op = "__call__"
     /\ mw_enabled
     /\ ret.user_id \notin {NULL, ""}
     /\ ret.path # <<"/">>
     /\ \A p \in public_paths \ {<<"/">>} : ~StartsWith(ret.path, p))
    => /\ ret.assessment # <<>>
       /\ ret.handler_calls > 0 => ret.assessment[1].risk_score < 70

\* C29: after any sequence of log_failed_login calls, failing audit appends
\* included, failed_logins has as many rows as the audit log has
\* LOGIN_FAILED entries.
C29_FailedLoginAllOrNothing ==
    Len(failed_logins) =
        Cardinality({i \in 1..Len(audit_log) :
                        audit_log[i].event_type = "LOGIN_FAILED"})


(***************************************************************************)
(* SpecRegister: register_device called by concurrent worker threads.      *)
(* Each call has its own connection to zt.db.  The existence SELECT reads  *)
(* the committed rows; the INSERT or UPDATE opens the write transaction    *)
(* and takes the database's write lock (a second writer waits in SQLite's  *)
(* busy handler); device_id is the table's PRIMARY KEY, so an INSERT of a  *)
(* stored device_id raises sqlite3.IntegrityError, and the connection is   *)
(* dropped as the exception leaves the call; the commit makes the row      *)
(* visible and releases the lock.                                          *)
(***************************************************************************)
RegisterDeviceStep(w, user_id, user_agent, ip_address, device_info) ==
    \* lines 221-226: device_id, timestamp, the existence SELECT
    \/ /\ workers[w].pc = "idle"
       /\ \A i \in 1..Len(devices) : devices[i].total_sessions < MaxDeviceSessions
       /\ workers' = [workers EXCEPT ![w] =
              [pc |-> "checked", user_id |-> user_id, user_agent |-> user_agent,
               ip_address |-> ip_address, device_info |-> device_info,
               device_id |-> GenerateDeviceId(user_agent, ip_address, user_id),
               timestamp |-> now,
               existing |-> \E i \in 1..Len(devices) :
                   devices[i].device_id =
                       GenerateDeviceId(user_agent, ip_address, user_id)]]
       /\ UNCHANGED <<db_lock, devices, ret>>
    \* lines 228-260: the UPDATE of the row found, or the INSERT
    \/ /\ workers[w].pc = "checked"
       /\ db_lock = NULL
       /\ IF /\ ~workers[w].existing
             /\ \E i \in 1..Len(devices) : devices[i].device_id = workers[w].device_id
          THEN /\ workers' = [workers EXCEPT ![w] = Idle]
               /\ ret' = [op |-> "register_device", user_id |-> workers[w].user_id,
                          raised |-> TRUE, error |-> "sqlite3.IntegrityError",
                          device_id |-> workers[w].device_id]
               /\ UNCHANGED db_lock
          ELSE /\ workers' = [workers EXCEPT ![w].pc = "written"]
               /\ db_lock' = w
               /\ UNCHANGED ret
       /\ UNCHANGED devices
    \* lines 262-278: the commit, the DeviceFingerprint returned
    \/ /\ workers[w].pc = "written"
       /\ db_lock = w
       /\ \E r \in {RegisterDeviceResult(
                       workers[w].device_id,
                       RegisterDeviceRows(workers[w].device_id, workers[w].user_id,
                                          workers[w].user_agent, workers[w].ip_address,
                                          workers[w].device_info, workers[w].timestamp),
                       workers[w].user_agent, workers[w].ip_address,
                       workers[w].device_info, workers[w].timestamp)} :
             /\ devices' = r.devices
             /\ ret' = [op |-> "register_device", user_id |-> workers[w].user_id,
                        raised |-> FALSE, fingerprint |-> r.fingerprint]
       /\ db_lock' = NULL
       /\ workers' = [workers EXCEPT ![w] = Idle]

NextRegister ==
    \/ \E w \in Workers, ip \in {InternalIp, PublicIp} :
          /\ RegisterDeviceStep(w, "u1", "Mozilla/5.0", ip, << <<"os", "Linux">> >>)
          /\ UNCHANGED <<now, auditVars, sessions, access_requests,
                         behavior_baseline, anomalies, mw_enabled, tampered>>
    \/ Tick

SpecRegister == Init /\ [][NextRegister]_vars

\* C30: with the steps (existence check, insert or update, commit) of two
\* register_device calls for one combination interleaved in any order, every
\* call completes without error and counts once: a call that ends leaves
\* exactly one record of its device_id, with total_sessions 1 when no record
\* was stored before it ended and one more than the stored count otherwise,
\* so that two calls for a new combination leave one record with
\* total_sessions 2.
C30_ConcurrentRegisterIdempotent ==
    [][ (Cardinality(Active) > Cardinality({w \in Workers : workers'[w].pc # "idle"}))
        => /\ ~ret'.raised
           /\ \E d \in {ret'.fingerprint.device_id} :
                 /\ Cardinality({i \in 1..Len(devices') : devices'[i].device_id = d}) = 1
                 /\ \A i \in 1..Len(devices') :
                       devices'[i].device_id = d
                       => IF i <= Len(devices)
                          THEN devices'[i].total_sessions = devices[i].total_sessions + 1
                          ELSE devices'[i].total_sessions = 1 ]_vars

=============================================================================
